---------------------------- MODULE Spec2Model ----------------------------
(***************************************************************************)
(* Model of the video transcription pipeline of navyas321/Cipher:           *)
(*   video_summarization_tool/audio_extractor.py       (validate, extract,  *)
(*                                                      cleanup)            *)
(*   video_summarization_tool/transcription_service.py (client, request)    *)
(*   video_summarization_tool/output_formatter.py      (normalizer,         *)
(*                                                      keyword search)     *)
(*   video_summarization_tool/video_summarization_tool.py (coordinator)     *)
(* and of the action-group lambda, action_group_lambda.py (lambda_handler, *)
(* the three action handlers, the polling loop of the transcription job).  *)
(*                                                                         *)
(* Numbers: every Python float of the model (timestamps, durations,        *)
(* confidences) is an integer count of 1e-4 units, so 0.0014 s is 14 and   *)
(* a confidence of 1.0 is 10000.  round(x, 3) is rounding to a multiple of *)
(* 10.                                                                     *)
(***************************************************************************)
EXTENDS Integers, Sequences, FiniteSets, TLC

VARIABLES
    video_path,         \* the argument of transcribe_video / validate_video_format
    video_exists,       \* os.path.exists(video_path)
    env_key,            \* whether DEEPGRAM_API_KEY is set in os.environ
    pc,                 \* position of the running call
    audio_path,         \* transcribe_video's local audio_path ("None" or "tmp")
    tmp,                \* the temporary audio file on disk: [exists, size]
    tmp_created,        \* number of tempfile.mkstemp calls
    cleanup_calls,      \* number of cleanup_temp_files calls
    removes,            \* number of os.remove calls that removed the file
    ffmpeg_runs,        \* number of subprocess.run calls
    requests,           \* number of transcribe_file requests sent to the backend
    client,             \* the TranscriptionService of this call ("None" or "client")
    deepgram_response,  \* the raw backend response
    formatted,          \* outcome of format_response: a value or a raised exception
    valid,              \* outcome of validate_video_format
    outcome,            \* how transcribe_video ended: returned value or raised error
    ffmpeg,             \* what the subprocess.run of extract_audio did
    extracted,          \* outcome of extract_audio: the path or a raised exception
    kw_words,           \* the words list find_time_ranges_by_keywords is called on
    kw_keywords,        \* the keywords list it is called on
    kw_given,           \* both lists as the caller built them, before the call
    time_ranges,        \* what find_time_ranges_by_keywords returned
    backend,            \* what the body of transcribe_audio met
    transcribed,        \* outcome of transcribe_audio: the response or a raised exception
    lambda_event,       \* the event lambda_handler is invoked with
    handler_calls,      \* the action handlers called, in order
    action_result,      \* what the action handler returned
    lambda_response,    \* outcome of lambda_handler: its response or a raised exception
    job_started,        \* number of start_transcription_job calls that succeeded
    wait_time,          \* transcribe_video_action's local wait_time
    polls,              \* number of get_transcription_job calls
    job_status,         \* outcome of the last get_transcription_job call
    download,           \* outcome of fetching and parsing the transcript
    job_deleted         \* number of delete_transcription_job calls

vars == << video_path, video_exists, env_key, pc, audio_path, tmp, tmp_created,
           cleanup_calls, removes, ffmpeg_runs, requests, client,
           deepgram_response, formatted, valid, outcome, ffmpeg, extracted,
           kw_words, kw_keywords, kw_given, time_ranges, backend, transcribed,
           lambda_event, handler_calls, action_result, lambda_response,
           job_started, wait_time, polls, job_status, download, job_deleted >>

(* The variables of the keyword search.                                    *)
searchvars == << kw_words, kw_keywords, kw_given, time_ranges >>

(* The variables of transcribe_video and its stages, pc apart.             *)
pipelinevars == << video_path, video_exists, env_key, audio_path, tmp, tmp_created,
                   cleanup_calls, removes, ffmpeg_runs, requests, client,
                   deepgram_response, formatted, valid, outcome, ffmpeg, extracted >>

(* The variables of transcribe_audio.                                      *)
servicevars == << backend, transcribed >>

(* The variables of the action-group lambda.                               *)
lambdavars == << lambda_event, handler_calls, action_result, lambda_response,
                 job_started, wait_time, polls, job_status, download, job_deleted >>

-----------------------------------------------------------------------------
(* Python values.  A value is a tagged record; Absent marks a key that a   *)
(* dict does not have.                                                     *)

None == [t |-> "none"]
Absent == [t |-> "absent"]
Num(n) == [t |-> "num", n |-> n]
Str(s) == [t |-> "str", s |-> s]
List(l) == [t |-> "list", l |-> l]
Dict(d) == [t |-> "dict", d |-> d]

(* The outcome of evaluating a Python expression: a value or an exception. *)
Ok(v) == [ex |-> "none", v |-> v]
Raise(e) == [ex |-> e]
IsOk(r) == r.ex = "none"

(* r, and then F on its value unless r raised.                             *)
Bind(r, F(_)) == IF IsOk(r) THEN F(r.v) ELSE r

(* Keys a dict holds.                                                      *)
Keys(x) == {k \in DOMAIN x.d : x.d[k] # Absent}

(* x.get(k, default): only a dict has .get, anything else raises           *)
(* AttributeError.                                                         *)
Get(x, k, default) ==
    IF x.t = "dict"
    THEN IF k \in Keys(x) THEN Ok(x.d[k]) ELSE Ok(default)
    ELSE Raise("AttributeError")

(* bool(x), as "if not x" evaluates it.                                    *)
Truthy(x) ==
    CASE x.t = "none" -> FALSE
      [] x.t = "num" -> x.n # 0
      [] x.t = "str" -> x.s # ""
      [] x.t = "list" -> x.l # << >>
      [] x.t = "dict" -> Keys(x) # {}

(* The characters of the strings of the model.                             *)
StrChars(s) ==
    CASE s = "" -> << >>
      [] s = "abc" -> << "a", "b", "c" >>
      [] s = "0.5" -> << "0", ".", "5" >>
      [] s = "hi" -> << "h", "i" >>
      [] s = "yo" -> << "y", "o" >>
      [] OTHER -> << s >>

(* x[0].                                                                   *)
Index0(x) ==
    CASE x.t = "list" -> IF x.l = << >> THEN Raise("IndexError") ELSE Ok(x.l[1])
      [] x.t = "str" -> IF x.s = "" THEN Raise("IndexError")
                        ELSE Ok(Str(StrChars(x.s)[1]))
      [] x.t = "dict" -> Raise("KeyError")
      [] OTHER -> Raise("TypeError")

(* The keys of a dict as the strings a loop over the dict visits.          *)
RECURSIVE KeySeq(_)
KeySeq(S) ==
    IF S = {} THEN << >>
    ELSE LET k == CHOOSE e \in S : TRUE
         IN  << Str(k) >> \o KeySeq(S \ {k})

(* The items "for item in x" visits.                                       *)
Iter(x) ==
    CASE x.t = "list" -> Ok(x.l)
      [] x.t = "str" -> Ok([i \in 1..Len(StrChars(x.s)) |-> Str(StrChars(x.s)[i])])
      [] x.t = "dict" -> Ok(KeySeq(Keys(x)))
      [] OTHER -> Raise("TypeError")

(* float(s) of a string: the numeric strings of the model parse.           *)
StrToFloat(s) ==
    CASE s = "0.5" -> Ok(5000)
      [] OTHER -> Raise("ValueError")

(* float(x).                                                               *)
Float(x) ==
    CASE x.t = "num" -> Ok(x.n)
      [] x.t = "str" -> StrToFloat(x.s)
      [] OTHER -> Raise("TypeError")

(* Round3 as a truncation to 3 decimals instead of a rounding.             *)
Round3Truncating(n) == 10 * (n \div 10)

(* round(x, 3): Python rounds the exact value to the nearest multiple of   *)
(* 0.001, a tie to the even one.                                           *)
Round3(n) ==
    LET q == n \div 10
        r == n % 10
    IN  IF r < 5 THEN 10 * q
        ELSE IF r > 5 THEN 10 * (q + 1)
        ELSE IF q % 2 = 0 THEN 10 * q ELSE 10 * (q + 1)

-----------------------------------------------------------------------------
(* output_formatter.py                                                     *)

EmptyDict == Dict(<< >>)
EmptyList == List(<< >>)

(* The exceptions the guards of the extraction helpers and of the metadata *)
(* block catch, and those the transcript guard catches.                    *)
CaughtByHelpers == {"KeyError", "IndexError", "TypeError", "ValueError"}
CaughtByTranscript == {"KeyError", "IndexError", "TypeError"}

(* try: r  except caught: default                                          *)
Guard(r, caught, default) ==
    IF ~IsOk(r) /\ r.ex \in caught THEN Ok(default) ELSE r

(* FormatWord with the start and end keys exchanged.                       *)
FormatWordSwapped(word) ==
    Bind(Get(word, "word", Str("")), LAMBDA text :
    Bind(Get(word, "end", Num(0)), LAMBDA s0 :
    Bind(Float(s0), LAMBDA s :
    Bind(Get(word, "start", Num(0)), LAMBDA e0 :
    Bind(Float(e0), LAMBDA e :
    Bind(Get(word, "confidence", Num(0)), LAMBDA c0 :
    Bind(Float(c0), LAMBDA c :
        Ok([text |-> text, start |-> Round3(s), end |-> Round3(e),
            confidence |-> c]))))))))

(* One word entry of the output, from a raw word entry (the dict literal   *)
(* of the loop body, evaluated in order).                                  *)
FormatWord(word) ==
    Bind(Get(word, "word", Str("")), LAMBDA text :
    Bind(Get(word, "start", Num(0)), LAMBDA s0 :
    Bind(Float(s0), LAMBDA s :
    Bind(Get(word, "end", Num(0)), LAMBDA e0 :
    Bind(Float(e0), LAMBDA e :
    Bind(Get(word, "confidence", Num(0)), LAMBDA c0 :
    Bind(Float(c0), LAMBDA c :
        Ok([text |-> text, start |-> Round3(s), end |-> Round3(e),
            confidence |-> c]))))))))

(* FormatWords building the list back to front.                            *)
RECURSIVE FormatWordsReversed(_)
FormatWordsReversed(items) ==
    IF items = << >> THEN Ok(<< >>)
    ELSE Bind(FormatWord(Head(items)), LAMBDA w :
         Bind(FormatWordsReversed(Tail(items)), LAMBDA rest :
             Ok(rest \o << w >>)))

(* FormatWords with a guard around each entry: an entry whose exception    *)
(* the guard catches is left out and the loop goes on.                     *)
RECURSIVE FormatWordsSkipping(_)
FormatWordsSkipping(items) ==
    IF items = << >> THEN Ok(<< >>)
    ELSE LET w == FormatWord(Head(items))
         IN  IF ~IsOk(w) /\ w.ex \in CaughtByHelpers
             THEN FormatWordsSkipping(Tail(items))
             ELSE Bind(w, LAMBDA ok :
                  Bind(FormatWordsSkipping(Tail(items)), LAMBDA rest :
                      Ok(<< ok >> \o rest)))

(* The loop over the raw words: the first exception ends it.               *)
RECURSIVE FormatWords(_)
FormatWords(items) ==
    IF items = << >> THEN Ok(<< >>)
    ELSE Bind(FormatWord(Head(items)), LAMBDA w :
         Bind(FormatWords(Tail(items)), LAMBDA rest :
             Ok(<< w >> \o rest)))

(* response -> results -> channels[0] -> alternatives[0], or Absent when   *)
(* channels or alternatives is missing or empty.                           *)
PrimaryAlternative(response) ==
    Bind(Get(response, "results", EmptyDict), LAMBDA results :
    Bind(Get(results, "channels", EmptyList), LAMBDA channels :
        IF ~Truthy(channels) THEN Ok(Absent)
        ELSE Bind(Index0(channels), LAMBDA channel :
             Bind(Get(channel, "alternatives", EmptyList), LAMBDA alternatives :
                 IF ~Truthy(alternatives) THEN Ok(Absent)
                 ELSE Index0(alternatives)))))

extract_words_with_timestamps(response) ==
    Guard(Bind(PrimaryAlternative(response), LAMBDA alt :
              IF alt = Absent THEN Ok(<< >>)
              ELSE Bind(Get(alt, "words", EmptyList), LAMBDA raw_words :
                   Bind(Iter(raw_words), LAMBDA items : FormatWords(items)))),
          CaughtByHelpers, << >>)

(* FormatUtterance reading the text from the key of the output schema.     *)
FormatUtteranceTextKey(utterance) ==
    Bind(Get(utterance, "words", EmptyList), LAMBDA raw_words :
    Bind(Iter(raw_words), LAMBDA items :
    Bind(FormatWords(items), LAMBDA utterance_words :
    Bind(Get(utterance, "text", Str("")), LAMBDA text :
    Bind(Get(utterance, "start", Num(0)), LAMBDA s0 :
    Bind(Float(s0), LAMBDA s :
    Bind(Get(utterance, "end", Num(0)), LAMBDA e0 :
    Bind(Float(e0), LAMBDA e :
    Bind(Get(utterance, "confidence", Num(0)), LAMBDA c0 :
    Bind(Float(c0), LAMBDA c :
        Ok([text |-> text, start |-> Round3(s), end |-> Round3(e),
            confidence |-> c, words |-> utterance_words])))))))))))

(* FormatUtterance taking start and end from the utterance's words: the    *)
(* start of the first and the end of the last.                             *)
FormatUtteranceFromWords(utterance) ==
    Bind(Get(utterance, "words", EmptyList), LAMBDA raw_words :
    Bind(Iter(raw_words), LAMBDA items :
    Bind(FormatWords(items), LAMBDA utterance_words :
    Bind(Get(utterance, "transcript", Str("")), LAMBDA text :
    Bind(Get(utterance, "start", Num(0)), LAMBDA s0 :
    Bind(Float(s0), LAMBDA s :
    Bind(Get(utterance, "end", Num(0)), LAMBDA e0 :
    Bind(Float(e0), LAMBDA e :
    Bind(Get(utterance, "confidence", Num(0)), LAMBDA c0 :
    Bind(Float(c0), LAMBDA c :
        Ok([text |-> text,
            start |-> IF utterance_words = << >> THEN Round3(s)
                      ELSE utterance_words[1].start,
            end |-> IF utterance_words = << >> THEN Round3(e)
                    ELSE utterance_words[Len(utterance_words)].end,
            confidence |-> c, words |-> utterance_words])))))))))))

(* One utterance of the output: its words first, then its own fields.      *)
FormatUtterance(utterance) ==
    Bind(Get(utterance, "words", EmptyList), LAMBDA raw_words :
    Bind(Iter(raw_words), LAMBDA items :
    Bind(FormatWords(items), LAMBDA utterance_words :
    Bind(Get(utterance, "transcript", Str("")), LAMBDA text :
    Bind(Get(utterance, "start", Num(0)), LAMBDA s0 :
    Bind(Float(s0), LAMBDA s :
    Bind(Get(utterance, "end", Num(0)), LAMBDA e0 :
    Bind(Float(e0), LAMBDA e :
    Bind(Get(utterance, "confidence", Num(0)), LAMBDA c0 :
    Bind(Float(c0), LAMBDA c :
        Ok([text |-> text, start |-> Round3(s), end |-> Round3(e),
            confidence |-> c, words |-> utterance_words])))))))))))

RECURSIVE FormatUtterances(_)
FormatUtterances(items) ==
    IF items = << >> THEN Ok(<< >>)
    ELSE Bind(FormatUtterance(Head(items)), LAMBDA u :
         Bind(FormatUtterances(Tail(items)), LAMBDA rest :
             Ok(<< u >> \o rest)))

extract_utterances_with_timestamps(response) ==
    Guard(Bind(Get(response, "results", EmptyDict), LAMBDA results :
          Bind(Get(results, "utterances", EmptyList), LAMBDA raw_utterances :
          Bind(Iter(raw_utterances), LAMBDA items : FormatUtterances(items)))),
          CaughtByHelpers, << >>)

(* The transcript block of format_response.                                *)
ExtractTranscript(response) ==
    Guard(Bind(PrimaryAlternative(response), LAMBDA alt :
              IF alt = Absent THEN Ok(Str(""))
              ELSE Get(alt, "transcript", Str(""))),
          CaughtByTranscript, Str(""))

(* The metadata the except branch sets.                                    *)
DefaultMetadata ==
    [duration |-> Num(0), language |-> Str("unknown"), model |-> Str("nova-3"),
     confidence |-> Num(0)]

(* The language and confidence the metadata block sets: both only inside   *)
(* "if channels: ... if alternatives:".                                    *)
LanguageAndConfidence(response) ==
    Bind(PrimaryAlternative(response), LAMBDA alt :
        IF alt = Absent THEN Ok([language |-> Absent, confidence |-> Absent])
        ELSE Bind(Get(alt, "detected_language", Str("unknown")), LAMBDA lang :
             Bind(Get(alt, "confidence", Num(0)), LAMBDA c0 :
             Bind(Float(c0), LAMBDA c :
                 Ok([language |-> lang, confidence |-> Num(c)])))))

(* The try body of the metadata block of format_response: a dict whose    *)
(* missing keys are Absent.                                                *)
MetadataBlock(response) ==
    Bind(Get(response, "metadata", EmptyDict), LAMBDA m :
    Bind(Get(m, "duration", Num(0)), LAMBDA d0 :
    Bind(Float(d0), LAMBDA d :
    Bind(LanguageAndConfidence(response), LAMBDA lc :
    Bind(Get(m, "model_info", EmptyDict), LAMBDA model_info :
    Bind(Get(model_info, "name", Str("nova-3")), LAMBDA name :
        Ok([duration |-> Num(Round3(d)), language |-> lc.language,
            model |-> name, confidence |-> lc.confidence])))))))

(* The metadata block with its except branch.                              *)
ExtractMetadata(response) ==
    Guard(MetadataBlock(response), CaughtByHelpers, DefaultMetadata)

(* format_response: the four blocks in order; an exception no guard        *)
(* catches leaves the function.                                            *)
format_response(response) ==
    Bind(ExtractTranscript(response), LAMBDA transcript :
    Bind(extract_words_with_timestamps(response), LAMBDA words :
    Bind(extract_utterances_with_timestamps(response), LAMBDA utterances :
    Bind(ExtractMetadata(response), LAMBDA metadata :
        Ok([transcript |-> transcript, words |-> words,
            utterances |-> utterances, metadata |-> metadata])))))

-----------------------------------------------------------------------------
(* The raw responses the normalizer is applied to.                         *)

MaxWords == 2        \* longest enumerated list of raw words
MaxUtterances == 2   \* longest enumerated list of raw utterances

SeqsUpTo(S, n) == UNION {[1..k -> S] : k \in 0..n}

(* Timestamps and confidences of raw entries, in 1e-4 units: negative,     *)
(* zero, not multiples of 0.001, above 1.0.                                *)
TimeVals == {-6, 0, 14, 26}
ConfVals == {0, 9876, 15000}

RawWord(text, s, e, c) ==
    Dict([word |-> text, start |-> s, end |-> e, confidence |-> c])

GoodWords ==
    {RawWord(Str("hi"), Num(s), Num(e), Num(c)) :
        s \in TimeVals, e \in TimeVals, c \in ConfVals}

(* Entries with missing keys, non-numeric or null numbers, and entries     *)
(* that are no mapping.                                                    *)
OddWords ==
    { RawWord(Absent, Absent, Absent, Absent),
      RawWord(Str("yo"), Num(14), Absent, Num(9876)),
      RawWord(Str("hi"), Str("abc"), Num(14), Num(0)),
      RawWord(Str("hi"), Str("0.5"), Num(26), Num(0)),
      RawWord(Str("hi"), Num(0), None, Num(0)),
      RawWord(None, Num(0), Num(14), List(<< >>)),
      None, Str("abc"), Num(7) }

CoreWords ==
    { RawWord(Str("hi"), Num(0), Num(14), Num(9876)),
      RawWord(Str("yo"), Num(14), Num(26), Num(0)),
      RawWord(Str("hi"), Str("abc"), Num(14), Num(0)),
      None }

RawWordLists ==
    {List(<< w >>) : w \in GoodWords \cup OddWords}
    \cup {List(q) : q \in SeqsUpTo(CoreWords, MaxWords)}
    \cup {Absent, None, Str("abc"), Str(""), Num(7), RawWord(Absent, Num(0), Absent, Absent)}

BaseWords ==
    List(<< RawWord(Str("hi"), Num(0), Num(14), Num(9876)),
            RawWord(Str("yo"), Num(14), Num(26), Num(10000)) >>)

RawUtterance(text, s, e, c, words) ==
    Dict([transcript |-> text, start |-> s, end |-> e, confidence |-> c,
          words |-> words])

GoodUtterances ==
    {RawUtterance(Str("hi yo"), Num(s), Num(e), Num(c), BaseWords) :
        s \in TimeVals, e \in TimeVals, c \in ConfVals}
    \cup {RawUtterance(Str("hi yo"), Num(0), Num(26), Num(9876), w) : w \in RawWordLists}

OddUtterances ==
    { RawUtterance(Absent, Absent, Absent, Absent, Absent),
      RawUtterance(Str("hi yo"), Str("abc"), Num(26), Num(0), BaseWords),
      RawUtterance(Str("hi yo"), Num(0), None, Num(0), BaseWords),
      RawUtterance(None, Num(0), Num(26), Str("0.5"), BaseWords),
      None, Str("abc"), Num(7) }

CoreUtterances ==
    { RawUtterance(Str("hi yo"), Num(0), Num(26), Num(9876), BaseWords),
      RawUtterance(Str("yo"), Num(14), Num(26), Num(0), Absent),
      RawUtterance(Str("hi"), Num(0), Str("abc"), Num(0), BaseWords),
      Str("abc") }

RawUtteranceLists ==
    {List(<< u >>) : u \in GoodUtterances \cup OddUtterances}
    \cup {List(q) : q \in SeqsUpTo(CoreUtterances, MaxUtterances)}
    \cup {Absent, None, Str("abc"), Num(7)}

BaseUtterances ==
    List(<< RawUtterance(Str("hi yo"), Num(0), Num(26), Num(9876), BaseWords) >>)

RawMetadata(duration, model_info) ==
    Dict([duration |-> duration, model_info |-> model_info])

RawMetadatas ==
    {RawMetadata(d, m) :
        d \in {Absent, None, Num(12346), Num(-6), Str("abc"), Str("0.5")},
        m \in {Absent, None, Dict([name |-> Absent]), Dict([name |-> Str("nova-2")]),
               Dict([name |-> None])}}
    \cup {Absent, None, Str("abc")}

BaseMetadata == RawMetadata(Num(12346), Dict([name |-> Str("nova-2")]))

RawAlternative(transcript, confidence, language, words) ==
    Dict([transcript |-> transcript, confidence |-> confidence,
          detected_language |-> language, words |-> words])

BaseAlternative == RawAlternative(Str("hi yo"), Num(9876), Str("en"), BaseWords)

RawResponse(results, metadata) == Dict([results |-> results, metadata |-> metadata])
RawResults(channels, utterances) == Dict([channels |-> channels, utterances |-> utterances])
RawChannel(alternatives) == Dict([alternatives |-> alternatives])

(* The response around one primary alternative.                            *)
ResponseOf(alt, utterances, metadata) ==
    RawResponse(RawResults(List(<< RawChannel(List(<< alt >>)) >>), utterances), metadata)

(* channels values: missing, null, empty, wrongly typed, and channels      *)
(* whose alternatives are missing, null, empty or wrongly typed.           *)
RawChannelLists ==
    { Absent, None, EmptyList, Str("abc"), Num(7), RawChannel(EmptyList),
      List(<< None >>), List(<< Str("abc") >>) }
    \cup {List(<< RawChannel(a) >>) :
            a \in {Absent, None, EmptyList, Str("abc"), Num(7), List(<< None >>),
                   List(<< Str("abc") >>), List(<< BaseAlternative >>)}}

SomeUtteranceLists ==
    { Absent, BaseUtterances,
      List(<< RawUtterance(Str("hi"), Num(0), Str("abc"), Num(0), BaseWords) >>),
      List(<< None >>) }

SomeWordLists ==
    { Absent, BaseWords,
      List(<< RawWord(Str("hi"), Str("abc"), Num(14), Num(0)) >>),
      List(<< Num(7) >>) }

SomeMetadatas ==
    { Absent, BaseMetadata, RawMetadata(Str("abc"), Absent), RawMetadata(Num(26), None) }

RawResponses ==
    \* one piece varied around a well-formed response
    {ResponseOf(RawAlternative(Str("hi yo"), Num(9876), Str("en"), w),
                BaseUtterances, BaseMetadata) : w \in RawWordLists}
    \cup {ResponseOf(BaseAlternative, u, BaseMetadata) : u \in RawUtteranceLists}
    \cup {ResponseOf(RawAlternative(t, c, l, BaseWords), BaseUtterances, m) :
            t \in {Absent, None, Str("hi yo")},
            c \in {Absent, None, Num(9876), Num(15000), Str("abc")},
            l \in {Absent, None, Str("en")},
            m \in RawMetadatas}
    \* the structure above the primary alternative
    \cup {RawResponse(RawResults(ch, u), m) :
            ch \in RawChannelLists, u \in SomeUtteranceLists, m \in SomeMetadatas}
    \cup {RawResponse(r, m) : r \in {Absent, None, Str("abc")}, m \in SomeMetadatas}
    \* the pieces together
    \cup {ResponseOf(RawAlternative(t, c, Str("en"), w), u, m) :
            t \in {Absent, Str("hi yo")}, c \in {Num(9876), Str("abc")},
            w \in SomeWordLists, u \in SomeUtteranceLists, m \in SomeMetadatas}
    \* a response that is no mapping
    \cup {None, Str("abc"), EmptyDict}

-----------------------------------------------------------------------------
(* audio_extractor.py.  A path is a sequence of characters.                *)

MaxPathLen == 5      \* longest enumerated path

(* str.lower() on the characters of the model.                             *)
Lower(c) ==
    CASE c = "M" -> "m" [] c = "K" -> "k" [] c = "V" -> "v" [] c = "P" -> "p"
      [] c = "A" -> "a" [] c = "I" -> "i" [] c = "O" -> "o" [] c = "X" -> "x"
      [] OTHER -> c

LowerSeq(q) == [i \in 1..Len(q) |-> Lower(q[i])]

(* The components of a path as pathlib keeps them: split at "/", the empty *)
(* and the "." components dropped.                                         *)
RECURSIVE Components(_, _, _)
Components(path, i, cur) ==
    LET done == IF cur \in {<< >>, << "." >>} THEN << >> ELSE << cur >>
    IN  IF i > Len(path) THEN done
        ELSE IF path[i] = "/" THEN done \o Components(path, i + 1, << >>)
        ELSE Components(path, i + 1, Append(cur, path[i]))

(* Path(p).name: the last component, or "".                                *)
PathName(path) ==
    LET cs == Components(path, 1, << >>)
    IN  IF cs = << >> THEN << >> ELSE cs[Len(cs)]

(* name.rfind("."), 0-based, -1 when there is none.                        *)
RFindDot(name) ==
    IF \E i \in 1..Len(name) : name[i] = "."
    THEN (CHOOSE i \in 1..Len(name) :
            name[i] = "." /\ \A j \in (i + 1)..Len(name) : name[j] # ".") - 1
    ELSE -1

(* Path(p).suffix (Python 3.11, the runtime the deployment pins): the name *)
(* from its last dot on, unless that dot starts or ends the name.          *)
PathSuffix(path) ==
    LET name == PathName(path)
        i == RFindDot(name)
    IN  IF 0 < i /\ i < Len(name) - 1 THEN SubSeq(name, i + 1, Len(name)) ELSE << >>

SUPPORTED_FORMATS ==
    { << ".", "m", "p", "4" >>, << ".", "a", "v", "i" >>,
      << ".", "m", "o", "v" >>, << ".", "m", "k", "v" >> }

(* validate_video_format without the .lower() of the extension.           *)
validate_video_format_CaseSensitive(path) ==
    LET file_extension == PathSuffix(path)
    IN  IF file_extension \notin SUPPORTED_FORMATS
        THEN [ex |-> "ValueError", ext |-> file_extension]
        ELSE Ok(TRUE)

(* validate_video_format: True, or ValueError naming the extension.        *)
validate_video_format(path) ==
    LET file_extension == LowerSeq(PathSuffix(path))
    IN  IF file_extension \notin SUPPORTED_FORMATS
        THEN [ex |-> "ValueError", ext |-> file_extension]
        ELSE Ok(TRUE)

(* cleanup_temp_files on the temporary file: os.remove when the path is    *)
(* set and exists; an exception of os.remove is printed and swallowed.     *)
(* remove_fails is whether os.remove raises.                               *)
cleanup_temp_files(file, path, remove_fails) ==
    IF path # "None" /\ file.exists /\ ~remove_fails
    THEN [file |-> [exists |-> FALSE, size |-> 0], removed |-> 1]
    ELSE [file |-> file, removed |-> 0]

(* Exit codes and diagnostic output (stderr) of the decoding process.       *)
ExitCodes == {0, 1}
Diagnostics == {"", "moov atom not found"}

(* The output file after the process: gone, empty or written.              *)
OutputFiles ==
    { [exists |-> FALSE, size |-> 0], [exists |-> TRUE, size |-> 0],
      [exists |-> TRUE, size |-> 1] }

(* What subprocess.run(ffmpeg_command, capture_output=True, text=True,     *)
(* check=False) can do: return with an exit code and the decoded           *)
(* diagnostics, the output file gone, empty or written; raise OSError (the *)
(* program cannot be started: no exit code, no diagnostics, the file as    *)
(* mkstemp made it); raise UnicodeDecodeError (text=True decodes the       *)
(* captured output strictly, after the process has ended).                 *)
FfmpegOutcomes ==
    {[raised |-> "none", returncode |-> c, stderr |-> d, exists |-> f.exists,
      size |-> f.size] : c \in ExitCodes, d \in Diagnostics, f \in OutputFiles}
    \cup {[raised |-> "OSError", returncode |-> 0, stderr |-> "", exists |-> TRUE,
           size |-> 0]}
    \cup {[raised |-> "UnicodeDecodeError", returncode |-> c, stderr |-> "",
           exists |-> f.exists, size |-> f.size] : c \in ExitCodes, f \in OutputFiles}

(* The exceptions the except clause of extract_audio catches.              *)
CaughtByExtract == {"SubprocessError", "OSError"}

(* The RuntimeError of extract_audio with what its message is built from:  *)
(* the exit code and stderr, the fixed text about the output file, or the  *)
(* text of the caught exception.                                           *)
ExtractionFailed(message) == [ex |-> "RuntimeError", message |-> message]

(* extract_audio checking the format before the existence of the file.     *)
extract_audio_FormatFirst(path, exists, o, remove_fails) ==
    LET none == [exists |-> FALSE, size |-> 0]
        ran == [exists |-> o.exists, size |-> o.size]
        cleaned == cleanup_temp_files(ran, "tmp", remove_fails)
        fail(message) ==
            [res |-> ExtractionFailed(message), file |-> cleaned.file, created |-> 1,
             runs |-> 1, cleanups |-> 1, removed |-> cleaned.removed]
    IN  IF ~IsOk(validate_video_format(path))
        THEN [res |-> Raise("ValueError"), file |-> none, created |-> 0,
              runs |-> 0, cleanups |-> 0, removed |-> 0]
        ELSE IF ~exists
        THEN [res |-> Raise("FileNotFoundError"), file |-> none, created |-> 0,
              runs |-> 0, cleanups |-> 0, removed |-> 0]
        ELSE IF o.raised # "none"
        THEN IF o.raised \in CaughtByExtract
             THEN fail([error |-> o.raised])
             ELSE [res |-> Raise(o.raised), file |-> ran, created |-> 1,
                   runs |-> 1, cleanups |-> 0, removed |-> 0]
        ELSE IF o.returncode # 0
        THEN fail([returncode |-> o.returncode, stderr |-> o.stderr])
        ELSE IF ~ran.exists \/ ran.size = 0
        THEN fail([text |-> "Output file was not created or is empty"])
        ELSE [res |-> Ok("tmp"), file |-> ran, created |-> 1,
              runs |-> 1, cleanups |-> 0, removed |-> 0]

(* extract_audio(video_path) with the temporary file `file` not yet        *)
(* there: the result, the file afterwards and what was called.             *)
extract_audio(path, exists, o, remove_fails) ==
    LET none == [exists |-> FALSE, size |-> 0]
        ran == [exists |-> o.exists, size |-> o.size]
        cleaned == cleanup_temp_files(ran, "tmp", remove_fails)
        fail(message) ==
            [res |-> ExtractionFailed(message), file |-> cleaned.file, created |-> 1,
             runs |-> 1, cleanups |-> 1, removed |-> cleaned.removed]
    IN  IF ~exists
        THEN [res |-> Raise("FileNotFoundError"), file |-> none, created |-> 0,
              runs |-> 0, cleanups |-> 0, removed |-> 0]
        ELSE IF ~IsOk(validate_video_format(path))
        THEN [res |-> Raise("ValueError"), file |-> none, created |-> 0,
              runs |-> 0, cleanups |-> 0, removed |-> 0]
        ELSE IF o.raised # "none"
        THEN IF o.raised \in CaughtByExtract
             THEN fail([error |-> o.raised])
             ELSE [res |-> Raise(o.raised), file |-> ran, created |-> 1,
                   runs |-> 1, cleanups |-> 0, removed |-> 0]
        ELSE IF o.returncode # 0
        THEN fail([returncode |-> o.returncode, stderr |-> o.stderr])
        ELSE IF ~ran.exists \/ ran.size = 0
        THEN fail([text |-> "Output file was not created or is empty"])
        ELSE [res |-> Ok("tmp"), file |-> ran, created |-> 1,
              runs |-> 1, cleanups |-> 0, removed |-> 0]

-----------------------------------------------------------------------------
(* transcription_service.py                                                *)

(* TranscriptionService.__init__: the key is the literal of the source;    *)
(* os.environ is not read.                                                 *)
TranscriptionService(key_in_env) == Ok("client")

(* The backend's responses: model_dump()/dict() give a mapping.            *)
BackendResponses == {r \in RawResponses : r.t = "dict"}

(* What the body of transcribe_audio can meet: the audio file cannot be    *)
(* read (OSError), the backend reports an error (ApiError with its status  *)
(* code, which may be None), the request fails otherwise, or a response    *)
(* arrives.                                                                *)
ApiStatusCodes == {"None", "401", "500"}

TranscribeOutcomes ==
    {[k |-> "unreadable"], [k |-> "network"], [k |-> "unexpected"]}
    \cup {[k |-> "api_error", status_code |-> c] : c \in ApiStatusCodes}
    \cup {[k |-> "ok", response |-> r] : r \in BackendResponses}

(* transcribe_audio with a single handler that wraps every failure of the  *)
(* body, the backend's error included, in ConnectionError.                 *)
transcribe_audio_SingleHandler(t) ==
    CASE t.k = "unreadable" -> [res |-> Raise("ConnectionError"), sent |-> 0]
      [] t.k = "ok" -> [res |-> Ok(t.response), sent |-> 1]
      [] OTHER -> [res |-> Raise("ConnectionError"), sent |-> 1]

(* transcribe_audio: the result and the number of requests sent.           *)
transcribe_audio(t) ==
    CASE t.k = "unreadable" -> [res |-> Raise("ConnectionError"), sent |-> 0]
      [] t.k = "api_error" ->
            [res |-> [ex |-> "ApiError", status_code |-> t.status_code], sent |-> 1]
      [] t.k = "ok" -> [res |-> Ok(t.response), sent |-> 1]
      [] OTHER -> [res |-> Raise("ConnectionError"), sent |-> 1]

-----------------------------------------------------------------------------
(* output_formatter.py: find_time_ranges_by_keywords.  The strings of the  *)
(* search are sequences of characters, so that lowercasing, containment    *)
(* and joining are computed.                                               *)

Text(q) == [t |-> "text", q |-> q]

(* x.lower(): only a string has it.                                        *)
StrLower(x) ==
    IF x.t = "text" THEN Ok(LowerSeq(x.q)) ELSE Raise("AttributeError")

(* kw in word_text, both strings.                                          *)
Contains(kw, word_text) ==
    \E i \in 0..(Len(word_text) - Len(kw)) :
        \A j \in 1..Len(kw) : word_text[i + j] = kw[j]

(* [kw.lower() for kw in keywords]                                         *)
RECURSIVE NormalizedKeywords(_)
NormalizedKeywords(keywords) ==
    IF keywords = << >> THEN Ok(<< >>)
    ELSE Bind(StrLower(Head(keywords)), LAMBDA kw :
         Bind(NormalizedKeywords(Tail(keywords)), LAMBDA rest :
             Ok(<< kw >> \o rest)))

(* MatchedKeywords without lowercasing the word's text.                    *)
MatchedKeywordsCaseSensitive(word, normalized_keywords) ==
    Bind(Get(word, "text", Text(<< >>)), LAMBDA text :
    Bind(StrLower(text), LAMBDA word_text :
        Ok(SelectSeq(normalized_keywords, LAMBDA kw : Contains(kw, text.q)))))

(* word_text and matched_keywords of one word: the normalized keywords     *)
(* its lowercased text contains, in the order of the list.                 *)
MatchedKeywords(word, normalized_keywords) ==
    Bind(Get(word, "text", Text(<< >>)), LAMBDA text :
    Bind(StrLower(text), LAMBDA word_text :
        Ok(SelectSeq(normalized_keywords, LAMBDA kw : Contains(kw, word_text)))))

(* [w.get('text', '') for w in context_words]                              *)
RECURSIVE ContextTexts(_)
ContextTexts(context_words) ==
    IF context_words = << >> THEN Ok(<< >>)
    ELSE Bind(Get(Head(context_words), "text", Text(<< >>)), LAMBDA text :
         Bind(ContextTexts(Tail(context_words)), LAMBDA rest :
             Ok(<< text >> \o rest)))

(* ' '.join(texts): every item must be a string.                           *)
RECURSIVE Join(_)
Join(texts) ==
    IF texts = << >> THEN Ok(<< >>)
    ELSE IF Head(texts).t # "text" THEN Raise("TypeError")
    ELSE IF Len(texts) = 1 THEN Ok(Head(texts).q)
    ELSE Bind(Join(Tail(texts)), LAMBDA rest :
             Ok(Head(texts).q \o << " " >> \o rest))

(* ContextWindow ending one word early.                                    *)
ContextWindowShort(word_list, i) ==
    LET context_start == IF i - 2 > 0 THEN i - 2 ELSE 0
        context_end == IF Len(word_list) < i + 2 THEN Len(word_list) ELSE i + 2
    IN  SubSeq(word_list, context_start + 1, context_end)

(* words[context_start:context_end] around the word of index i (from 0).   *)
ContextWindow(word_list, i) ==
    LET context_start == IF i - 2 > 0 THEN i - 2 ELSE 0
        context_end == IF Len(word_list) < i + 3 THEN Len(word_list) ELSE i + 3
    IN  SubSeq(word_list, context_start + 1, context_end)

(* TimeRange spanning the context window instead of the matching word.     *)
TimeRangeOfWindow(word_list, i, matched_keywords) ==
    LET window == ContextWindow(word_list, i)
    IN  Bind(ContextTexts(window), LAMBDA texts :
        Bind(Join(texts), LAMBDA matched_text :
        Bind(Get(window[1], "start", Num(0)), LAMBDA s0 :
        Bind(Float(s0), LAMBDA s :
        Bind(Get(window[Len(window)], "end", Num(0)), LAMBDA e0 :
        Bind(Float(e0), LAMBDA e :
            Ok([start |-> Round3(s), end |-> Round3(e),
                matched_text |-> matched_text, keywords |-> matched_keywords])))))))

(* The time range appended for the matching word of index i: matched_text  *)
(* first, then the dict literal in order.                                  *)
TimeRangeOf(word_list, i, matched_keywords) ==
    LET word == word_list[i + 1]
    IN  Bind(ContextTexts(ContextWindow(word_list, i)), LAMBDA texts :
        Bind(Join(texts), LAMBDA matched_text :
        Bind(Get(word, "start", Num(0)), LAMBDA s0 :
        Bind(Float(s0), LAMBDA s :
        Bind(Get(word, "end", Num(0)), LAMBDA e0 :
        Bind(Float(e0), LAMBDA e :
            Ok([start |-> Round3(s), end |-> Round3(e),
                matched_text |-> matched_text, keywords |-> matched_keywords])))))))

(* The loop over the words from index i on: the first exception ends it.   *)
RECURSIVE SearchFrom(_, _, _)
SearchFrom(word_list, normalized_keywords, i) ==
    IF i >= Len(word_list) THEN Ok(<< >>)
    ELSE Bind(MatchedKeywords(word_list[i + 1], normalized_keywords),
              LAMBDA matched_keywords :
                IF matched_keywords = << >>
                THEN SearchFrom(word_list, normalized_keywords, i + 1)
                ELSE Bind(TimeRangeOf(word_list, i, matched_keywords), LAMBDA r :
                     Bind(SearchFrom(word_list, normalized_keywords, i + 1),
                          LAMBDA rest : Ok(<< r >> \o rest))))

(* find_time_ranges_by_keywords lowercasing the keywords in the caller's   *)
(* list.                                                                   *)
find_time_ranges_by_keywords_InPlace(word_list, keywords) ==
    IF word_list = << >> \/ keywords = << >>
    THEN [res |-> Ok(<< >>), words |-> word_list, keywords |-> keywords]
    ELSE LET nk == NormalizedKeywords(keywords)
         IN  [res |-> Bind(nk, LAMBDA normalized_keywords :
                          SearchFrom(word_list, normalized_keywords, 0)),
              words |-> word_list,
              keywords |-> IF IsOk(nk) THEN [i \in 1..Len(nk.v) |-> Text(nk.v[i])]
                           ELSE keywords]

(* find_time_ranges_by_keywords: what it returns or raises, and the two    *)
(* lists it was given as the call leaves them.                             *)
find_time_ranges_by_keywords(word_list, keywords) ==
    IF word_list = << >> \/ keywords = << >>
    THEN [res |-> Ok(<< >>), words |-> word_list, keywords |-> keywords]
    ELSE [res |-> Bind(NormalizedKeywords(keywords), LAMBDA normalized_keywords :
                      SearchFrom(word_list, normalized_keywords, 0)),
          words |-> word_list, keywords |-> keywords]

(* The inputs of the search.                                               *)

MaxSearchWords == 6  \* longest enumerated list of consecutive words
MaxSimultaneous == 4 \* longest enumerated list of simultaneous words
MaxKeywords == 2     \* longest enumerated list of keywords

SearchTexts == { << "A", "k" >>, << "k" >>, << "x" >> }

SearchKeywords ==
    { Text(<< "a" >>), Text(<< "A" >>), Text(<< "a", "K" >>), Text(<< "K" >>),
      Text(<< >>), Text(<< "m" >>), None }

SearchWord(text, s, e) ==
    Dict([text |-> text, start |-> s, end |-> e, confidence |-> Num(9876)])

(* Words one after the other, the i-th from 0.0104*(i-1) + 0.0014 to the    *)
(* start of the next; and words that all have the same start and end.      *)
ConsecutiveWords(texts) ==
    [i \in 1..Len(texts) |->
        SearchWord(Text(texts[i]), Num(104 * (i - 1) + 14), Num(104 * i + 14))]

SimultaneousWords(texts) ==
    [i \in 1..Len(texts) |-> SearchWord(Text(texts[i]), Num(14), Num(26))]

(* Words with missing keys, a null text, a text that is no string, a       *)
(* start that is no number, and an entry that is no mapping.               *)
OddSearchWordLists ==
    { << SearchWord(Absent, Num(14), Num(26)), SearchWord(Text(<< "k" >>), Absent, Absent) >>,
      << SearchWord(Text(<< "A" >>), Num(14), Num(26)), SearchWord(None, Num(26), Num(30)) >>,
      << SearchWord(None, Num(14), Num(26)) >>,
      << SearchWord(Text(<< "k" >>), Str("abc"), Num(26)) >>,
      << SearchWord(Text(<< "x" >>), Num(0), Num(14)), None >> }

SomeSearchWordLists ==
    { << >>,
      ConsecutiveWords(<< << "A", "k" >> >>),
      ConsecutiveWords(<< << "x" >>, << "A", "k" >>, << "k" >> >>),
      ConsecutiveWords(<< << "k" >>, << "x" >>, << "x" >>, << "A", "k" >>, << "x" >>,
                          << "x" >>, << "k" >> >>),
      SimultaneousWords(<< << "A", "k" >>, << "A", "k" >> >>) }
    \cup OddSearchWordLists

SomeKeywordLists ==
    { << >>, << Text(<< "a" >>) >>, << Text(<< "K" >>), Text(<< "a", "K" >>) >>,
      << Text(<< >>) >>, << Text(<< "A" >>), Text(<< "a" >>) >> }

SearchInputs ==
    {[words |-> ConsecutiveWords(ts), keywords |-> ks] :
        ts \in SeqsUpTo(SearchTexts, MaxSearchWords), ks \in SomeKeywordLists}
    \cup {[words |-> SimultaneousWords(ts), keywords |-> ks] :
        ts \in SeqsUpTo(SearchTexts, MaxSimultaneous), ks \in SomeKeywordLists}
    \cup {[words |-> ws, keywords |-> ks] :
        ws \in SomeSearchWordLists, ks \in SeqsUpTo(SearchKeywords, MaxKeywords)}

-----------------------------------------------------------------------------
(* video_summarization_tool.py: transcribe_video, one action per step of   *)
(* its try block and one for its finally block.                            *)

NotRun == [ex |-> "notrun"]
NoFile == [exists |-> FALSE, size |-> 0]

(* No keyword search has been asked for.                                   *)
NoSearch ==
    /\ kw_words = << >>
    /\ kw_keywords = << >>
    /\ kw_given = NotRun
    /\ time_ranges = NotRun

(* transcribe_audio has not been called.                                   *)
NoService ==
    /\ backend = NotRun
    /\ transcribed = NotRun

(* The action-group lambda has not been invoked.                           *)
NoLambda ==
    /\ lambda_event = NotRun
    /\ handler_calls = << >>
    /\ action_result = NotRun
    /\ lambda_response = NotRun
    /\ job_started = 0
    /\ wait_time = 0
    /\ polls = 0
    /\ job_status = NotRun
    /\ download = NotRun
    /\ job_deleted = 0

PipelinePaths ==
    { << "a", ".", "m", "k", "v" >>, << "a", ".", "M", "K", "V" >>,
      << "a", ".", "t", "x", "t" >>, << "a" >> }

Init ==
    /\ video_path \in PipelinePaths
    /\ video_exists \in BOOLEAN
    /\ env_key \in BOOLEAN
    /\ pc = "validate"
    /\ audio_path = "None"
    /\ tmp = NoFile
    /\ tmp_created = 0
    /\ cleanup_calls = 0
    /\ removes = 0
    /\ ffmpeg_runs = 0
    /\ requests = 0
    /\ client = "None"
    /\ deepgram_response = Absent
    /\ formatted = NotRun
    /\ valid = NotRun
    /\ outcome = [kind |-> "running"]
    /\ ffmpeg = NotRun
    /\ extracted = NotRun
    /\ NoService
    /\ NoLambda
    /\ NoSearch

(* An exception leaves the try block: the finally block runs next.         *)
RaiseOut(e) ==
    /\ outcome' = [kind |-> "raising", error |-> e]
    /\ pc' = "finally"

(* Step 1 with the error of the validation put aside and extraction        *)
(* started all the same.                                                   *)
ValidateThenGoOn ==
    /\ pc = "validate"
    /\ valid' = validate_video_format(video_path)
    /\ pc' = "extract"
    /\ UNCHANGED outcome
    /\ UNCHANGED << video_path, video_exists, env_key, audio_path, tmp, tmp_created,
                    cleanup_calls, removes, ffmpeg_runs, requests, client,
                    deepgram_response, formatted >>
    /\ UNCHANGED << ffmpeg, extracted >>
    /\ UNCHANGED searchvars
    /\ UNCHANGED servicevars
    /\ UNCHANGED lambdavars

(* Step 1: validate_video_format(video_path).                              *)
Validate ==
    /\ pc = "validate"
    /\ valid' = validate_video_format(video_path)
    /\ IF IsOk(valid')
       THEN pc' = "extract" /\ UNCHANGED outcome
       ELSE RaiseOut(valid')
    /\ UNCHANGED << video_path, video_exists, env_key, audio_path, tmp, tmp_created,
                    cleanup_calls, removes, ffmpeg_runs, requests, client,
                    deepgram_response, formatted >>
    /\ UNCHANGED << ffmpeg, extracted >>
    /\ UNCHANGED searchvars
    /\ UNCHANGED servicevars
    /\ UNCHANGED lambdavars

(* Step 2: audio_path = extract_audio(video_path).                         *)
ExtractAudio ==
    /\ pc = "extract"
    /\ \E o \in FfmpegOutcomes, remove_fails \in BOOLEAN :
         LET x == extract_audio(video_path, video_exists, o, remove_fails)
         IN  /\ tmp' = x.file
             /\ tmp_created' = tmp_created + x.created
             /\ ffmpeg_runs' = ffmpeg_runs + x.runs
             /\ cleanup_calls' = cleanup_calls + x.cleanups
             /\ removes' = removes + x.removed
             /\ ffmpeg' = (IF x.runs = 1 THEN o ELSE NotRun)
             /\ extracted' = x.res
             /\ IF IsOk(x.res)
                THEN audio_path' = x.res.v /\ pc' = "client" /\ UNCHANGED outcome
                ELSE UNCHANGED audio_path /\ RaiseOut(x.res)
    /\ UNCHANGED << video_path, video_exists, env_key, requests, client,
                    deepgram_response, formatted, valid >>
    /\ UNCHANGED searchvars
    /\ UNCHANGED servicevars
    /\ UNCHANGED lambdavars

(* Step 3a: transcription_service = TranscriptionService().                *)
CreateClient ==
    /\ pc = "client"
    /\ LET c == TranscriptionService(env_key)
       IN  IF IsOk(c)
           THEN client' = c.v /\ pc' = "transcribe" /\ UNCHANGED outcome
           ELSE UNCHANGED client /\ RaiseOut(c)
    /\ UNCHANGED << video_path, video_exists, env_key, audio_path, tmp, tmp_created,
                    cleanup_calls, removes, ffmpeg_runs, requests,
                    deepgram_response, formatted, valid >>
    /\ UNCHANGED << ffmpeg, extracted >>
    /\ UNCHANGED searchvars
    /\ UNCHANGED servicevars
    /\ UNCHANGED lambdavars

(* Step 3b with one more attempt after a failed request.                   *)
TranscribeAudioRetrying ==
    /\ pc = "transcribe"
    /\ \E t \in TranscribeOutcomes :
         LET x == transcribe_audio(t)
         IN  /\ requests' = requests + x.sent
             /\ backend' = t
             /\ transcribed' = x.res
             /\ IF IsOk(x.res)
                THEN deepgram_response' = x.res.v /\ pc' = "format"
                     /\ UNCHANGED outcome
                ELSE IF requests' < 2
                THEN UNCHANGED << deepgram_response, pc, outcome >>
                ELSE UNCHANGED deepgram_response /\ RaiseOut(x.res)
    /\ UNCHANGED << video_path, video_exists, env_key, audio_path, tmp, tmp_created,
                    cleanup_calls, removes, ffmpeg_runs, client, formatted, valid >>
    /\ UNCHANGED << ffmpeg, extracted >>
    /\ UNCHANGED searchvars
    /\ UNCHANGED lambdavars

(* Step 3b: deepgram_response = transcription_service.transcribe_audio().  *)
TranscribeAudio ==
    /\ pc = "transcribe"
    /\ \E t \in TranscribeOutcomes :
         LET x == transcribe_audio(t)
         IN  /\ requests' = requests + x.sent
             /\ backend' = t
             /\ transcribed' = x.res
             /\ IF IsOk(x.res)
                THEN deepgram_response' = x.res.v /\ pc' = "format"
                     /\ UNCHANGED outcome
                ELSE UNCHANGED deepgram_response /\ RaiseOut(x.res)
    /\ UNCHANGED << video_path, video_exists, env_key, audio_path, tmp, tmp_created,
                    cleanup_calls, removes, ffmpeg_runs, client, formatted, valid >>
    /\ UNCHANGED << ffmpeg, extracted >>
    /\ UNCHANGED searchvars
    /\ UNCHANGED lambdavars

(* Step 4: formatted_result = format_response(deepgram_response); return.  *)
FormatResponse ==
    /\ pc = "format"
    /\ formatted' = format_response(deepgram_response)
    /\ IF IsOk(formatted')
       THEN outcome' = [kind |-> "returning", value |-> formatted'.v]
            /\ pc' = "finally"
       ELSE RaiseOut(formatted')
    /\ UNCHANGED << video_path, video_exists, env_key, audio_path, tmp, tmp_created,
                    cleanup_calls, removes, ffmpeg_runs, requests, client,
                    deepgram_response, valid >>
    /\ UNCHANGED << ffmpeg, extracted >>
    /\ UNCHANGED searchvars
    /\ UNCHANGED servicevars
    /\ UNCHANGED lambdavars

(* Step 5 with a deletion whose failure is not swallowed: the OSError of   *)
(* os.remove replaces the pending return or exception.                     *)
FinallyCleanupRaises ==
    /\ pc = "finally"
    /\ \E remove_fails \in BOOLEAN :
         /\ IF audio_path # "None"
            THEN LET c == cleanup_temp_files(tmp, audio_path, remove_fails)
                 IN  /\ tmp' = c.file
                     /\ cleanup_calls' = cleanup_calls + 1
                     /\ removes' = removes + c.removed
            ELSE UNCHANGED << tmp, cleanup_calls, removes >>
         /\ outcome' = IF audio_path # "None" /\ tmp.exists /\ remove_fails
                       THEN [kind |-> "raised", error |-> Raise("OSError")]
                       ELSE IF outcome.kind = "returning"
                       THEN [kind |-> "returned", value |-> outcome.value]
                       ELSE [kind |-> "raised", error |-> outcome.error]
    /\ pc' = "done"
    /\ UNCHANGED << video_path, video_exists, env_key, audio_path, tmp_created,
                    ffmpeg_runs, requests, client, deepgram_response, formatted,
                    valid >>
    /\ UNCHANGED << ffmpeg, extracted >>
    /\ UNCHANGED searchvars
    /\ UNCHANGED servicevars
    /\ UNCHANGED lambdavars

(* Step 5, the finally block: cleanup_temp_files(audio_path) when          *)
(* audio_path is set; then the pending return or exception completes.      *)
Finally ==
    /\ pc = "finally"
    /\ \E remove_fails \in BOOLEAN :
         IF audio_path # "None"
         THEN LET c == cleanup_temp_files(tmp, audio_path, remove_fails)
              IN  /\ tmp' = c.file
                  /\ cleanup_calls' = cleanup_calls + 1
                  /\ removes' = removes + c.removed
         ELSE UNCHANGED << tmp, cleanup_calls, removes >>
    /\ outcome' = IF outcome.kind = "returning"
                  THEN [kind |-> "returned", value |-> outcome.value]
                  ELSE [kind |-> "raised", error |-> outcome.error]
    /\ pc' = "done"
    /\ UNCHANGED << video_path, video_exists, env_key, audio_path, tmp_created,
                    ffmpeg_runs, requests, client, deepgram_response, formatted,
                    valid >>
    /\ UNCHANGED << ffmpeg, extracted >>
    /\ UNCHANGED searchvars
    /\ UNCHANGED servicevars
    /\ UNCHANGED lambdavars

Next ==
    \/ Validate
    \/ ExtractAudio
    \/ CreateClient
    \/ TranscribeAudio
    \/ FormatResponse
    \/ Finally

Spec == Init /\ [][Next]_vars

-----------------------------------------------------------------------------
(* format_response called on its own, on every raw response.  Idle: no    *)
(* pipeline is running.                                                    *)

Idle ==
    /\ video_exists = FALSE
    /\ env_key = FALSE
    /\ audio_path = "None"
    /\ tmp = NoFile
    /\ tmp_created = 0
    /\ cleanup_calls = 0
    /\ removes = 0
    /\ ffmpeg_runs = 0
    /\ requests = 0
    /\ client = "None"
    /\ outcome = [kind |-> "running"]
    /\ ffmpeg = NotRun
    /\ extracted = NotRun
    /\ NoService
    /\ NoLambda

InitFormat ==
    /\ Idle
    /\ NoSearch
    /\ video_path = << >>
    /\ pc = "format_call"
    /\ deepgram_response \in RawResponses
    /\ formatted = NotRun
    /\ valid = NotRun

FormatCall ==
    /\ pc = "format_call"
    /\ formatted' = format_response(deepgram_response)
    /\ pc' = "format_done"
    /\ UNCHANGED << video_path, video_exists, env_key, audio_path, tmp, tmp_created,
                    cleanup_calls, removes, ffmpeg_runs, requests, client,
                    deepgram_response, valid, outcome >>
    /\ UNCHANGED << ffmpeg, extracted >>
    /\ UNCHANGED searchvars
    /\ UNCHANGED servicevars
    /\ UNCHANGED lambdavars

NextFormat == FormatCall

SpecFormat == InitFormat /\ [][NextFormat]_vars

-----------------------------------------------------------------------------
(* validate_video_format called on its own, on every path of up to         *)
(* MaxPathLen characters and on paths with each supported extension.       *)

PathChars == {"/", ".", "m", "k", "v", "M", "x"}

NamedPaths ==
    { << "a", ".", "m", "p", "4" >>, << "a", ".", "M", "P", "4" >>,
      << "a", ".", "a", "v", "i" >>, << "a", ".", "A", "v", "I" >>,
      << "a", ".", "m", "o", "v" >>, << "a", ".", "M", "O", "V" >>,
      << "x", "/", "a", ".", "m", "k", "v" >>,
      << "a", ".", "m", "k", "v", ".", "x" >>,
      << "a", ".", "x", ".", "m", "p", "4" >>,
      << "a", ".", "m", "p", "3" >>, << "a", "m", "p", "4" >>,
      << "a", ".", "m", "p", "4", "/", "x" >> }

ValidatePaths == SeqsUpTo(PathChars, MaxPathLen) \cup NamedPaths

InitValidate ==
    /\ Idle
    /\ NoSearch
    /\ video_path \in ValidatePaths
    /\ pc = "validate_call"
    /\ deepgram_response = Absent
    /\ formatted = NotRun
    /\ valid = NotRun

ValidateCall ==
    /\ pc = "validate_call"
    /\ valid' = validate_video_format(video_path)
    /\ pc' = "validate_done"
    /\ UNCHANGED << video_path, video_exists, env_key, audio_path, tmp, tmp_created,
                    cleanup_calls, removes, ffmpeg_runs, requests, client,
                    deepgram_response, formatted, outcome >>
    /\ UNCHANGED << ffmpeg, extracted >>
    /\ UNCHANGED searchvars
    /\ UNCHANGED servicevars
    /\ UNCHANGED lambdavars

NextValidate == ValidateCall

SpecValidate == InitValidate /\ [][NextValidate]_vars

-----------------------------------------------------------------------------
(* find_time_ranges_by_keywords called on its own, on every input of       *)
(* SearchInputs.                                                           *)

InitSearch ==
    /\ Idle
    /\ video_path = << >>
    /\ pc = "search_call"
    /\ deepgram_response = Absent
    /\ formatted = NotRun
    /\ valid = NotRun
    /\ kw_given \in SearchInputs
    /\ kw_words = kw_given.words
    /\ kw_keywords = kw_given.keywords
    /\ time_ranges = NotRun

SearchCall ==
    /\ pc = "search_call"
    /\ LET x == find_time_ranges_by_keywords(kw_words, kw_keywords)
       IN  /\ time_ranges' = x.res
           /\ kw_words' = x.words
           /\ kw_keywords' = x.keywords
    /\ pc' = "search_done"
    /\ UNCHANGED << video_path, video_exists, env_key, audio_path, tmp, tmp_created,
                    cleanup_calls, removes, ffmpeg_runs, requests, client,
                    deepgram_response, formatted, valid, outcome, ffmpeg, extracted,
                    kw_given >>
    /\ UNCHANGED servicevars
    /\ UNCHANGED lambdavars

NextSearch == SearchCall

SpecSearch == InitSearch /\ [][NextSearch]_vars

-----------------------------------------------------------------------------
(* extract_audio called on its own, on a path that may not exist or not be *)
(* of a supported format.                                                  *)

InitExtract ==
    /\ video_path \in PipelinePaths \cup NamedPaths
    /\ video_exists \in BOOLEAN
    /\ env_key = FALSE
    /\ pc = "extract_call"
    /\ audio_path = "None"
    /\ tmp = NoFile
    /\ tmp_created = 0
    /\ cleanup_calls = 0
    /\ removes = 0
    /\ ffmpeg_runs = 0
    /\ requests = 0
    /\ client = "None"
    /\ deepgram_response = Absent
    /\ formatted = NotRun
    /\ valid = NotRun
    /\ outcome = [kind |-> "running"]
    /\ ffmpeg = NotRun
    /\ extracted = NotRun
    /\ NoService
    /\ NoLambda
    /\ NoSearch

ExtractCall ==
    /\ pc = "extract_call"
    /\ \E o \in FfmpegOutcomes, remove_fails \in BOOLEAN :
         LET x == extract_audio(video_path, video_exists, o, remove_fails)
         IN  /\ tmp' = x.file
             /\ tmp_created' = tmp_created + x.created
             /\ ffmpeg_runs' = ffmpeg_runs + x.runs
             /\ cleanup_calls' = cleanup_calls + x.cleanups
             /\ removes' = removes + x.removed
             /\ ffmpeg' = (IF x.runs = 1 THEN o ELSE NotRun)
             /\ extracted' = x.res
    /\ pc' = "extract_done"
    /\ UNCHANGED << video_path, video_exists, env_key, audio_path, requests, client,
                    deepgram_response, formatted, valid, outcome >>
    /\ UNCHANGED searchvars
    /\ UNCHANGED servicevars
    /\ UNCHANGED lambdavars

NextExtract == ExtractCall

SpecExtract == InitExtract /\ [][NextExtract]_vars

-----------------------------------------------------------------------------
(* The two entry points side by side: a call of transcribe_video or a      *)
(* direct call of extract_audio, on the same paths.                        *)

InitEntryPoints == Init \/ InitExtract

NextEntryPoints ==
    \/ Validate
    \/ ExtractAudio
    \/ CreateClient
    \/ TranscribeAudio
    \/ FormatResponse
    \/ Finally
    \/ ExtractCall

SpecEntryPoints == InitEntryPoints /\ [][NextEntryPoints]_vars

-----------------------------------------------------------------------------
(* action_group_lambda.py: the action handlers and lambda_handler.  The    *)
(* polling loop of transcribe_video_action is one step per iteration.      *)

MaxParams == 2       \* longest enumerated parameters list of an event

(* x[k] with a string key: KeyError when a mapping lacks the key,          *)
(* TypeError on what is no mapping.                                        *)
Subscript(x, k) ==
    IF x.t = "dict"
    THEN IF k \in Keys(x) THEN Ok(x.d[k]) ELSE Raise("KeyError")
    ELSE Raise("TypeError")

(* params_dict before the loop, as a dict over the parameter names of the  *)
(* three actions.                                                          *)
EmptyParams ==
    Dict([bucket_name |-> Absent, video_key |-> Absent, user_prompt |-> Absent])

(* The loop "params_dict[param['name']] = param['value']".                 *)
RECURSIVE ParamsDict(_, _)
ParamsDict(items, acc) ==
    IF items = << >> THEN Ok(acc)
    ELSE Bind(Subscript(Head(items), "value"), LAMBDA value :
         Bind(Subscript(Head(items), "name"), LAMBDA name :
             ParamsDict(Tail(items), [acc EXCEPT !.d[name.s] = value])))

(* json.dumps(x): the text that encodes x.                                 *)
JsonDumps(x) == [json |-> x]

(* What an action handler returns on an error.                             *)
ActionError(error) == [success |-> FALSE, error |-> error]

(* get_object as retrieve_video_from_s3_action meets it: the object's      *)
(* size, a ClientError with its code, or another exception.                *)
S3Outcomes ==
    {[k |-> "ok", size |-> 3], [k |-> "other"]}
    \cup {[k |-> "client_error", code |-> c] : c \in {"NoSuchKey", "AccessDenied", "SlowDown"}}

retrieve_video_from_s3_action(parameters, s3) ==
    LET bucket_name == Get(parameters, "bucket_name", None).v
        video_key == Get(parameters, "video_key", None).v
    IN  IF ~Truthy(bucket_name) \/ ~Truthy(video_key)
        THEN ActionError("MissingParameters")
        ELSE CASE s3.k = "ok" ->
                    [success |-> TRUE, video_size_bytes |-> s3.size,
                     bucket_name |-> bucket_name, video_key |-> video_key]
               [] s3.k = "client_error" -> ActionError(s3.code)
               [] OTHER -> ActionError("UnexpectedError")

(* The role agent as invoke_role_agent_action meets it: ROLE_AGENT_ID not  *)
(* set, an answer that is JSON or plain text, a ClientError, or another    *)
(* exception.                                                              *)
AgentOutcomes ==
    {[k |-> "unconfigured"], [k |-> "json"], [k |-> "text"], [k |-> "client_error"],
     [k |-> "other"]}

invoke_role_agent_action(parameters, agent) ==
    LET user_prompt == Get(parameters, "user_prompt", None).v
    IN  IF ~Truthy(user_prompt)
        THEN ActionError("MissingParameters")
        ELSE IF agent.k = "json"
        THEN [success |-> TRUE, role |-> "analyst", fallback |-> FALSE]
        ELSE [success |-> TRUE, role |-> "DEFAULT_ROLE", fallback |-> TRUE]

(* start_transcription_job, and the creation of the client before it: done,*)
(* a ClientError with its code, or another exception.                      *)
StartOutcomes ==
    {[k |-> "ok"], [k |-> "other"]}
    \cup {[k |-> "client_error", code |-> c] : c \in {"ConflictException", "LimitExceededException"}}

(* get_transcription_job: a job status, a ClientError with its code, or    *)
(* another exception.                                                      *)
JobStatuses == {"QUEUED", "IN_PROGRESS", "COMPLETED", "FAILED"}

PollOutcomes ==
    {[k |-> "status", status |-> s] : s \in JobStatuses}
    \cup {[k |-> "client_error", code |-> "ThrottlingException"], [k |-> "other"]}

(* Fetching the transcript of a completed job (urlopen, json.loads and the *)
(* indexing of the document): the words of the transcript, or an exception.*)
DownloadOutcomes ==
    {[k |-> "ok", transcript |-> t] : t \in {<< >>, << "hi", "yo" >>}}
    \cup {[k |-> "failed"]}

max_wait == 300      \* seconds the loop waits in all
PollInterval == 10   \* seconds slept between two polls

(* The events: the event of an action group with its apiPath and           *)
(* parameters, and payloads that are no mapping.                           *)
ApiPaths ==
    { Str("/retrieve_video_from_s3"), Str("/transcribe_video"),
      Str("/invoke_role_agent"), Str("/delete_video"), Absent }

Param(name, value) == Dict([name |-> Str(name), value |-> value])

ParamEntries ==
    { Param("bucket_name", Str("b")), Param("video_key", Str("k")),
      Param("video_key", Str("")), Param("user_prompt", Str("p")),
      Dict([name |-> Str("bucket_name"), value |-> Absent]) }

ParamLists ==
    {List(q) : q \in SeqsUpTo(ParamEntries, MaxParams)} \cup {Absent, None}

Event(api_path, parameters) ==
    Dict([actionGroup |-> Str("video"), apiPath |-> api_path,
          httpMethod |-> Str("POST"), parameters |-> parameters])

Events ==
    {Event(a, p) : a \in ApiPaths, p \in ParamLists} \cup {None, EmptyList}

(* The try block of lambda_handler up to the routing: the fields of the    *)
(* event and params_dict.                                                  *)
ParseEvent(ev) ==
    Bind(Get(ev, "actionGroup", None), LAMBDA action_group :
    Bind(Get(ev, "apiPath", None), LAMBDA api_path :
    Bind(Get(ev, "httpMethod", None), LAMBDA http_method :
    Bind(Get(ev, "parameters", EmptyList), LAMBDA parameters :
    Bind(Iter(parameters), LAMBDA items :
    Bind(ParamsDict(items, EmptyParams), LAMBDA params_dict :
        Ok([action_group |-> action_group, api_path |-> api_path,
            http_method |-> http_method, params_dict |-> params_dict])))))))

(* The response lambda_handler builds.                                     *)
ActionResponse(action_group, api_path, http_method, status, body) ==
    [messageVersion |-> "1.0", actionGroup |-> action_group, apiPath |-> api_path,
     httpMethod |-> http_method, httpStatusCode |-> status,
     body |-> JsonDumps(body)]

(* The response for the result of an action: 200 when result.get('success')*)
(* is true, else 400.                                                      *)
ResultResponse(parsed, res) ==
    ActionResponse(parsed.action_group, parsed.api_path, parsed.http_method,
                   IF res.success THEN 200 ELSE 400, res)

(* The except branch of lambda_handler: it reads the event again.          *)
ExceptResponse(ev) ==
    Bind(Get(ev, "actionGroup", Str("unknown")), LAMBDA action_group :
    Bind(Get(ev, "apiPath", Str("unknown")), LAMBDA api_path :
    Bind(Get(ev, "httpMethod", Str("POST")), LAMBDA http_method :
        Ok(ActionResponse(action_group, api_path, http_method, 500,
                          ActionError("InternalError"))))))

(* lambda_handler is invoked with an event; the pipeline is not running.   *)
InitLambda ==
    /\ video_path = << >>
    /\ video_exists = FALSE
    /\ env_key = FALSE
    /\ pc = "handler_call"
    /\ audio_path = "None"
    /\ tmp = NoFile
    /\ tmp_created = 0
    /\ cleanup_calls = 0
    /\ removes = 0
    /\ ffmpeg_runs = 0
    /\ requests = 0
    /\ client = "None"
    /\ deepgram_response = Absent
    /\ formatted = NotRun
    /\ valid = NotRun
    /\ outcome = [kind |-> "running"]
    /\ ffmpeg = NotRun
    /\ extracted = NotRun
    /\ NoSearch
    /\ NoService
    /\ lambda_event \in Events
    /\ handler_calls = << >>
    /\ action_result = NotRun
    /\ lambda_response = NotRun
    /\ job_started = 0
    /\ wait_time = 0
    /\ polls = 0
    /\ job_status = NotRun
    /\ download = NotRun
    /\ job_deleted = 0

(* lambda_handler from its first line to the call of the action handler;   *)
(* the two handlers without a loop run to their end here.                  *)
Dispatch ==
    /\ pc = "handler_call"
    /\ LET parsed == ParseEvent(lambda_event)
       IN  IF ~IsOk(parsed)
           THEN /\ lambda_response' = ExceptResponse(lambda_event)
                /\ pc' = "handler_done"
                /\ UNCHANGED << handler_calls, action_result >>
           ELSE CASE parsed.v.api_path = Str("/retrieve_video_from_s3") ->
                       /\ \E s3 \in S3Outcomes :
                            action_result' =
                                retrieve_video_from_s3_action(parsed.v.params_dict, s3)
                       /\ handler_calls' =
                            Append(handler_calls, "retrieve_video_from_s3_action")
                       /\ pc' = "action_done"
                       /\ UNCHANGED lambda_response
                  [] parsed.v.api_path = Str("/transcribe_video") ->
                       /\ handler_calls' = Append(handler_calls, "transcribe_video_action")
                       /\ pc' = "action_start"
                       /\ UNCHANGED << action_result, lambda_response >>
                  [] parsed.v.api_path = Str("/invoke_role_agent") ->
                       /\ \E agent \in AgentOutcomes :
                            action_result' =
                                invoke_role_agent_action(parsed.v.params_dict, agent)
                       /\ handler_calls' = Append(handler_calls, "invoke_role_agent_action")
                       /\ pc' = "action_done"
                       /\ UNCHANGED lambda_response
                  [] OTHER ->
                       /\ action_result' = ActionError("UnknownAction")
                       /\ pc' = "action_done"
                       /\ UNCHANGED << handler_calls, lambda_response >>
    /\ UNCHANGED << lambda_event, job_started, wait_time, polls, job_status, download,
                    job_deleted >>
    /\ UNCHANGED pipelinevars
    /\ UNCHANGED searchvars
    /\ UNCHANGED servicevars

(* transcribe_video_action up to its loop: the parameters are checked and  *)
(* the transcription job is started.                                       *)
StartTranscriptionJob ==
    /\ pc = "action_start"
    /\ LET parameters == ParseEvent(lambda_event).v.params_dict
           bucket_name == Get(parameters, "bucket_name", None).v
           video_key == Get(parameters, "video_key", None).v
       IN  IF ~Truthy(bucket_name) \/ ~Truthy(video_key)
           THEN /\ action_result' = ActionError("MissingParameters")
                /\ pc' = "action_done"
                /\ UNCHANGED << job_started, wait_time >>
           ELSE \E s \in StartOutcomes :
                  CASE s.k = "ok" ->
                         /\ job_started' = job_started + 1
                         /\ wait_time' = 0
                         /\ pc' = "action_poll"
                         /\ UNCHANGED action_result
                    [] s.k = "client_error" ->
                         /\ action_result' = ActionError(s.code)
                         /\ pc' = "action_done"
                         /\ UNCHANGED << job_started, wait_time >>
                    [] OTHER ->
                         /\ action_result' = ActionError("TranscriptionError")
                         /\ pc' = "action_done"
                         /\ UNCHANGED << job_started, wait_time >>
    /\ UNCHANGED << lambda_event, handler_calls, lambda_response, polls, job_status,
                    download, job_deleted >>
    /\ UNCHANGED pipelinevars
    /\ UNCHANGED searchvars
    /\ UNCHANGED servicevars

(* One iteration of the loop, with the job deleted as soon as it is seen   *)
(* COMPLETED, before its transcript is fetched.                            *)
PollTranscriptionJobDeletingFirst ==
    /\ pc = "action_poll"
    /\ wait_time < max_wait
    /\ \E p \in PollOutcomes :
         /\ polls' = polls + 1
         /\ job_status' = p
         /\ CASE p.k = "status" /\ p.status = "COMPLETED" ->
                   \E d \in DownloadOutcomes :
                      /\ download' = d
                      /\ job_deleted' = job_deleted + 1
                      /\ action_result' =
                           (IF d.k = "ok"
                            THEN [success |-> TRUE, transcript |-> d.transcript,
                                  word_count |-> Len(d.transcript)]
                            ELSE ActionError("TranscriptionError"))
                      /\ pc' = "action_done"
                      /\ UNCHANGED wait_time
              [] p.k = "status" /\ p.status = "FAILED" ->
                   /\ action_result' = ActionError("TranscriptionFailed")
                   /\ pc' = "action_done"
                   /\ UNCHANGED << wait_time, download, job_deleted >>
              [] p.k = "status" /\ p.status \notin {"COMPLETED", "FAILED"} ->
                   /\ wait_time' = wait_time + PollInterval
                   /\ IF wait_time' < max_wait
                      THEN pc' = "action_poll" /\ UNCHANGED action_result
                      ELSE /\ action_result' = ActionError("TranscriptionTimeout")
                           /\ pc' = "action_done"
                   /\ UNCHANGED << download, job_deleted >>
              [] p.k = "client_error" ->
                   /\ action_result' = ActionError(p.code)
                   /\ pc' = "action_done"
                   /\ UNCHANGED << wait_time, download, job_deleted >>
              [] OTHER ->
                   /\ action_result' = ActionError("TranscriptionError")
                   /\ pc' = "action_done"
                   /\ UNCHANGED << wait_time, download, job_deleted >>
    /\ UNCHANGED << lambda_event, handler_calls, lambda_response, job_started >>
    /\ UNCHANGED pipelinevars
    /\ UNCHANGED searchvars
    /\ UNCHANGED servicevars

(* One iteration of the loop of transcribe_video_action: the job is polled;*)
(* COMPLETED fetches the transcript, deletes the job (an exception of the  *)
(* deletion is passed over) and returns; FAILED returns; any other status  *)
(* sleeps, and the loop ends with TranscriptionTimeout once wait_time      *)
(* reaches max_wait; an exception returns the error of the except clauses. *)
PollTranscriptionJob ==
    /\ pc = "action_poll"
    /\ wait_time < max_wait
    /\ \E p \in PollOutcomes :
         /\ polls' = polls + 1
         /\ job_status' = p
         /\ CASE p.k = "status" /\ p.status = "COMPLETED" ->
                   \E d \in DownloadOutcomes :
                      /\ download' = d
                      /\ IF d.k = "ok"
                         THEN /\ job_deleted' = job_deleted + 1
                              /\ action_result' =
                                   [success |-> TRUE, transcript |-> d.transcript,
                                    word_count |-> Len(d.transcript)]
                         ELSE /\ UNCHANGED job_deleted
                              /\ action_result' = ActionError("TranscriptionError")
                      /\ pc' = "action_done"
                      /\ UNCHANGED wait_time
              [] p.k = "status" /\ p.status = "FAILED" ->
                   /\ action_result' = ActionError("TranscriptionFailed")
                   /\ pc' = "action_done"
                   /\ UNCHANGED << wait_time, download, job_deleted >>
              [] p.k = "status" /\ p.status \notin {"COMPLETED", "FAILED"} ->
                   /\ wait_time' = wait_time + PollInterval
                   /\ IF wait_time' < max_wait
                      THEN pc' = "action_poll" /\ UNCHANGED action_result
                      ELSE /\ action_result' = ActionError("TranscriptionTimeout")
                           /\ pc' = "action_done"
                   /\ UNCHANGED << download, job_deleted >>
              [] p.k = "client_error" ->
                   /\ action_result' = ActionError(p.code)
                   /\ pc' = "action_done"
                   /\ UNCHANGED << wait_time, download, job_deleted >>
              [] OTHER ->
                   /\ action_result' = ActionError("TranscriptionError")
                   /\ pc' = "action_done"
                   /\ UNCHANGED << wait_time, download, job_deleted >>
    /\ UNCHANGED << lambda_event, handler_calls, lambda_response, job_started >>
    /\ UNCHANGED pipelinevars
    /\ UNCHANGED searchvars
    /\ UNCHANGED servicevars

(* lambda_handler after the action returned: the response is built.        *)
Respond ==
    /\ pc = "action_done"
    /\ lambda_response' = Ok(ResultResponse(ParseEvent(lambda_event).v, action_result))
    /\ pc' = "handler_done"
    /\ UNCHANGED << lambda_event, handler_calls, action_result, job_started, wait_time,
                    polls, job_status, download, job_deleted >>
    /\ UNCHANGED pipelinevars
    /\ UNCHANGED searchvars
    /\ UNCHANGED servicevars

NextLambda ==
    \/ Dispatch
    \/ StartTranscriptionJob
    \/ PollTranscriptionJob
    \/ Respond

SpecLambda == InitLambda /\ [][NextLambda]_vars

(* The handler keeps running: every call it makes returns or raises.       *)
SpecLambdaFair == SpecLambda /\ WF_vars(NextLambda)

-----------------------------------------------------------------------------
(* Properties of the pipeline (Spec).                                      *)

Done == pc = "done"

(* C1: once extract_audio has created the temporary audio file, its        *)
(* deletion is carried out exactly once on every exit path of              *)
(* transcribe_video: one cleanup_temp_files on the file, by the extractor  *)
(* when extraction itself fails and by the coordinator otherwise, never    *)
(* both and never neither.                                                 *)
C1_TempFileDeletedOncePerExit ==
    (Done /\ tmp_created > 0) => (cleanup_calls = 1 /\ removes <= 1)

(* C2: after transcribe_video has returned or raised, the temporary audio  *)
(* file of the call no longer exists on disk, whatever each stage did.     *)
C2_TempFileGoneAfterCall ==
    Done => ~tmp.exists

(* The error kind of the taxonomy a Python exception stands for.           *)
ErrorKind(e) ==
    CASE e.ex = "ValueError" -> "UnsupportedFormat"
      [] e.ex = "FileNotFoundError" -> "FileNotFound"
      [] e.ex = "RuntimeError" -> "ExtractionFailed"
      [] e.ex = "EnvironmentError" -> "ConfigurationError"
      [] e.ex = "ConnectionError" -> "ConnectivityError"
      [] e.ex = "ApiError" -> "ApiError"
      [] OTHER -> "Other"

Taxonomy ==
    { "UnsupportedFormat", "FileNotFound", "ExtractionFailed", "ConfigurationError",
      "ConnectivityError", "ApiError" }

(* C4: every invocation of transcribe_video ends either returning a result *)
(* with transcript, words, utterances and metadata, or raising one error   *)
(* whose kind is in the taxonomy; no other kind of error escapes.          *)
C4_ResultOrTaxonomyError ==
    Done =>
        \/ /\ outcome.kind = "returned"
           /\ DOMAIN outcome.value = {"transcript", "words", "utterances", "metadata"}
        \/ /\ outcome.kind = "raised"
           /\ ErrorKind(outcome.error) \in Taxonomy

(* C6: with DEEPGRAM_API_KEY unset, no Transcription Client comes to       *)
(* exist and no request is sent to the backend; a call that gets as far as *)
(* creating the client ends raising the configuration error                *)
(* (EnvironmentError).                                                     *)
C6_MissingKeyRaisesConfigurationError ==
    ~env_key =>
        /\ client = "None"
        /\ requests = 0
        /\ (Done /\ audio_path # "None") =>
               (outcome.kind = "raised" /\ outcome.error.ex = "EnvironmentError")

-----------------------------------------------------------------------------
(* Properties of the normalizer (SpecFormat).                              *)

FormatDone == pc = "format_done"

(* C3: format_response never raises, whatever the raw response is: every   *)
(* missing, null or wrongly typed piece degrades to a default.             *)
C3_FormatResponseNeverRaises ==
    FormatDone => IsOk(formatted)

(* The primary alternative of a response when channels[0].alternatives[0]  *)
(* is there, Absent otherwise (read off the response, not computed by the  *)
(* normalizer).                                                            *)
HasList(d, k) == d.t = "dict" /\ k \in Keys(d) /\ d.d[k].t = "list" /\ d.d[k].l # << >>

AltOf(response) ==
    IF /\ response.t = "dict" /\ "results" \in Keys(response)
       /\ HasList(response.d.results, "channels")
       /\ HasList(response.d.results.d.channels.l[1], "alternatives")
    THEN response.d.results.d.channels.l[1].d.alternatives.l[1]
    ELSE Absent

SourceOf(d, k) == IF d.t = "dict" /\ k \in Keys(d) THEN d.d[k] ELSE Absent

(* C5: the metadata block format_response returns holds all four fields,   *)
(* and a field whose source is absent holds its default: duration 0.0,     *)
(* language "unknown", model "nova-3", confidence 0.0.                     *)
C5_MetadataAlwaysComplete ==
    (FormatDone /\ IsOk(formatted)) =>
        LET md == formatted.v.metadata
            alt == AltOf(deepgram_response)
            meta == SourceOf(deepgram_response, "metadata")
        IN  /\ \A k \in {"duration", "language", "model", "confidence"} : md[k] # Absent
            /\ SourceOf(meta, "duration") = Absent => md.duration = Num(0)
            /\ SourceOf(alt, "detected_language") = Absent => md.language = Str("unknown")
            /\ SourceOf(alt, "confidence") = Absent => md.confidence = Num(0)
            /\ SourceOf(SourceOf(meta, "model_info"), "name") = Absent
                    => md.model = Str("nova-3")

(* The raw entries an output list was made from: the words of the primary  *)
(* alternative and the utterances of the results.                          *)
RawWordsOf(response) == AltOf(response).d.words.l
RawUtterancesOf(response) == response.d.results.d.utterances.l

(* The number a raw entry gives for a key: its value as float() reads it,  *)
(* 0.0 when the key is missing.                                            *)
InputNumber(entry, k) ==
    IF k \in Keys(entry) THEN Float(entry.d[k]).v ELSE 0

(* A raw entry whose start, end and confidence are numbers within range.   *)
RawInRange(entry) ==
    /\ entry.t = "dict"
    /\ \A k \in {"start", "end", "confidence"} : k \in Keys(entry) /\ entry.d[k].t = "num"
    /\ 0 <= entry.d.start.n /\ entry.d.start.n <= entry.d.end.n
    /\ 0 <= entry.d.confidence.n /\ entry.d.confidence.n <= 10000

WordInRange(w) ==
    /\ 0 <= w.start /\ w.start <= w.end
    /\ 0 <= w.confidence /\ w.confidence <= 10000

IsRounded3(x, y) ==
    /\ y % 10 = 0
    /\ y - x <= 5 /\ x - y <= 5
    /\ (y - x = 5 \/ x - y = 5) => (y \div 10) % 2 = 0

(* start and end of an output entry are those of its raw entry rounded to  *)
(* 3 decimals; its confidence is the raw one, not rounded.                 *)
TimesCarried(entry, out) ==
    /\ IsRounded3(InputNumber(entry, "start"), out.start)
    /\ IsRounded3(InputNumber(entry, "end"), out.end)
    /\ out.confidence = InputNumber(entry, "confidence")

AllTimesCarried ==
    /\ \A i \in 1..Len(formatted.v.words) :
         TimesCarried(RawWordsOf(deepgram_response)[i], formatted.v.words[i])
    /\ \A j \in 1..Len(formatted.v.utterances) :
         LET u == RawUtterancesOf(deepgram_response)[j]
         IN  /\ TimesCarried(u, formatted.v.utterances[j])
             /\ \A i \in 1..Len(formatted.v.utterances[j].words) :
                  TimesCarried(u.d.words.l[i], formatted.v.utterances[j].words[i])

(* The response gives a duration float() reads.                            *)
HasDuration(response) ==
    /\ SourceOf(response, "metadata").t = "dict"
    /\ SourceOf(response.d.metadata, "duration") # Absent
    /\ IsOk(Float(response.d.metadata.d.duration))

DurationCarried ==
    /\ formatted.v.metadata.duration.t = "num"
    /\ IsRounded3(Float(deepgram_response.d.metadata.d.duration).v,
                  formatted.v.metadata.duration.n)

(* C9 as stated: every start and end in the output (words, utterances,     *)
(* utterance words) and the metadata duration equal the corresponding      *)
(* input value rounded to 3 decimals; confidences are coerced, not         *)
(* rounded.                                                                *)
C9_TimestampsAndDurationRounded ==
    (FormatDone /\ IsOk(formatted)) =>
        /\ AllTimesCarried
        /\ HasDuration(deepgram_response) => DurationCarried

(* C9 amended: every start and end in the output equals the corresponding  *)
(* input value rounded to 3 decimals and confidences are coerced, not      *)
(* rounded; the metadata duration equals the input duration rounded to 3   *)
(* decimals whenever the metadata block raised nothing, and is the default *)
(* 0.0 of the except branch when it did.                                   *)
C9_RoundedUnlessMetadataReset ==
    (FormatDone /\ IsOk(formatted)) =>
        /\ AllTimesCarried
        /\ HasDuration(deepgram_response) =>
              IF IsOk(MetadataBlock(deepgram_response))
              THEN DurationCarried
              ELSE formatted.v.metadata = DefaultMetadata

(* C9 witness: a response whose word, utterance and duration values are    *)
(* not multiples of 0.001 and come out rounded, up and down.               *)
C9_Witness ==
    /\ FormatDone /\ IsOk(formatted)
    /\ formatted.v.metadata.duration = Num(12350)
    /\ deepgram_response.d.metadata.d.duration = Num(12346)
    /\ Len(formatted.v.words) >= 1
    /\ RawWordsOf(deepgram_response)[1].d.start = Num(14)
    /\ formatted.v.words[1].start = 10
    /\ RawWordsOf(deepgram_response)[1].d.end = Num(26)
    /\ formatted.v.words[1].end = 30
    /\ formatted.v.words[1].confidence = 9876
    /\ Len(formatted.v.utterances) >= 1
    /\ formatted.v.utterances[1].end = 30

-----------------------------------------------------------------------------
(* Properties of the format validator (SpecValidate).                      *)

ValidateDone == pc = "validate_done"

(* The name ends with the extension, whatever the case of its letters, and *)
(* has at least one character before it.                                   *)
EndsWithIgnoringCase(name, ext) ==
    /\ Len(name) > Len(ext)
    /\ \A i \in 1..Len(ext) : Lower(name[Len(name) - Len(ext) + i]) = ext[i]

(* ext is the lowercased final extension of the name: nothing when the     *)
(* last dot of the name is its first or its last character or there is no  *)
(* dot, else the name's end from its last dot on.                          *)
IsFinalExtension(name, ext) ==
    IF ext = << >>
    THEN ~ \E i \in 2..(Len(name) - 1) :
              name[i] = "." /\ \A j \in (i + 1)..Len(name) : name[j] # "."
    ELSE /\ ext[1] = "."
         /\ Len(ext) >= 2
         /\ \A i \in 2..Len(ext) : ext[i] # "."
         /\ EndsWithIgnoringCase(name, ext)

(* C7: validate_video_format returns True exactly for the paths whose      *)
(* final extension, lowercased, is .mp4, .avi, .mov or .mkv; for every     *)
(* other path it raises ValueError naming the rejected extension; and it   *)
(* changes nothing else.                                                   *)
C7_ValidAcceptsExactlySupported ==
    ValidateDone =>
        LET name == PathName(video_path)
            supported == \E e \in SUPPORTED_FORMATS : EndsWithIgnoringCase(name, e)
        IN  /\ valid.ex \in {"none", "ValueError"}
            /\ (valid.ex = "none") <=> supported
            /\ valid.ex = "none" => valid.v = TRUE
            /\ valid.ex = "ValueError" => IsFinalExtension(name, valid.ext)
            /\ Idle /\ deepgram_response = Absent /\ formatted = NotRun

(* C7 witness: a path with a mixed-case supported extension accepted.      *)
C7_Witness ==
    /\ ValidateDone
    /\ valid = Ok(TRUE)
    /\ video_path = << "a", ".", "A", "v", "I" >>

-----------------------------------------------------------------------------
(* Properties of the normalizer on responses with missing pieces and on    *)
(* well-formed responses (SpecFormat).                                     *)

(* C11: for a raw response that lacks results.utterances and gives neither *)
(* a detected language nor a confidence, format_response returns an empty  *)
(* utterance list and a metadata block with language "unknown" and         *)
(* confidence 0.0, and does not raise.                                     *)
C11_NoUtterancesDegradesToDefaults ==
    ( /\ FormatDone
      /\ deepgram_response.t = "dict"
      /\ SourceOf(SourceOf(deepgram_response, "results"), "utterances") = Absent
      /\ SourceOf(AltOf(deepgram_response), "detected_language") = Absent
      /\ SourceOf(AltOf(deepgram_response), "confidence") = Absent )
    => /\ IsOk(formatted)
       /\ formatted.v.utterances = << >>
       /\ formatted.v.metadata.language = Str("unknown")
       /\ formatted.v.metadata.confidence = Num(0)

(* v is missing or of type t.                                              *)
TypedOrAbsent(v, t) == v = Absent \/ v.t = t

(* A raw word with its four fields, of the backend's types.                *)
WellFormedWord(w) ==
    /\ w.t = "dict"
    /\ Keys(w) = {"word", "start", "end", "confidence"}
    /\ w.d.word.t = "str"
    /\ \A k \in {"start", "end", "confidence"} : w.d[k].t = "num"

WellFormedWords(l) ==
    l.t = "list" /\ \A i \in 1..Len(l.l) : WellFormedWord(l.l[i])

WellFormedUtterance(u) ==
    /\ u.t = "dict"
    /\ Keys(u) = {"transcript", "start", "end", "confidence", "words"}
    /\ u.d.transcript.t = "str"
    /\ \A k \in {"start", "end", "confidence"} : u.d[k].t = "num"
    /\ WellFormedWords(u.d.words)

(* A response of the backend's shape: a primary alternative with a         *)
(* transcript and words, utterances with words, and every other piece      *)
(* either missing or of its type.                                          *)
WellFormed(response) ==
    LET alt == AltOf(response)
        meta == SourceOf(response, "metadata")
    IN  /\ alt # Absent /\ alt.t = "dict"
        /\ SourceOf(alt, "transcript").t = "str"
        /\ SourceOf(alt, "words") # Absent /\ WellFormedWords(alt.d.words)
        /\ TypedOrAbsent(SourceOf(alt, "confidence"), "num")
        /\ SourceOf(response.d.results, "utterances").t = "list"
        /\ \A j \in 1..Len(RawUtterancesOf(response)) :
             WellFormedUtterance(RawUtterancesOf(response)[j])
        /\ TypedOrAbsent(meta, "dict")
        /\ TypedOrAbsent(SourceOf(meta, "duration"), "num")
        /\ TypedOrAbsent(SourceOf(meta, "model_info"), "dict")

(* An output word carries its raw word over: the text and the confidence   *)
(* as given, start and end rounded to 3 decimals; the text of an entry     *)
(* without one is the empty string.                                        *)
InputText(entry, k) == IF k \in Keys(entry) THEN entry.d[k] ELSE Str("")

WordCarried(raw, out) ==
    /\ out.text = InputText(raw, "word")
    /\ TimesCarried(raw, out)

WordsCarried(raws, outs) ==
    /\ Len(outs) = Len(raws)
    /\ \A i \in 1..Len(raws) : WordCarried(raws[i], outs[i])

UtteranceCarried(raw, out) ==
    /\ out.text = InputText(raw, "transcript")
    /\ TimesCarried(raw, out)
    /\ WordsCarried(raw.d.words.l, out.words)

(* C12: for a well-formed raw response format_response preserves the       *)
(* backend's data: the transcript is alternatives[0].transcript; the word  *)
(* list has the length and order of channels[0].alternatives[0].words,     *)
(* each word's text and confidence as given and start and end rounded to 3 *)
(* decimals; the utterance list has the length and order of                *)
(* results.utterances, each utterance's text, times, confidence and nested *)
(* words carried over the same way.                                        *)
C12_WellFormedResponsePreserved ==
    (FormatDone /\ WellFormed(deepgram_response)) =>
        /\ IsOk(formatted)
        /\ formatted.v.transcript = AltOf(deepgram_response).d.transcript
        /\ WordsCarried(RawWordsOf(deepgram_response), formatted.v.words)
        /\ Len(formatted.v.utterances) = Len(RawUtterancesOf(deepgram_response))
        /\ \A j \in 1..Len(formatted.v.utterances) :
             UtteranceCarried(RawUtterancesOf(deepgram_response)[j],
                              formatted.v.utterances[j])

(* C12 witness: the well-formed response with two words and one utterance  *)
(* of two words, normalized.                                               *)
C12_Witness ==
    /\ FormatDone
    /\ deepgram_response = ResponseOf(BaseAlternative, BaseUtterances, BaseMetadata)
    /\ WellFormed(deepgram_response)
    /\ formatted.v.transcript = Str("hi yo")
    /\ Len(formatted.v.words) = 2
    /\ formatted.v.words[2].text = Str("yo")
    /\ Len(formatted.v.utterances) = 1
    /\ formatted.v.utterances[1].text = Str("hi yo")
    /\ Len(formatted.v.utterances[1].words) = 2

(* Smallest start and largest end of a non-empty sequence of entries.      *)
MinStart(ws) == CHOOSE m \in {ws[i].start : i \in 1..Len(ws)} :
                    \A i \in 1..Len(ws) : m <= ws[i].start
MaxEnd(ws) == CHOOSE m \in {ws[i].end : i \in 1..Len(ws)} :
                  \A i \in 1..Len(ws) : m >= ws[i].end

(* The utterance spans its words.                                          *)
SpansWords(u) ==
    u.words # << >> => (u.start = MinStart(u.words) /\ u.end = MaxEnd(u.words))

(* The numbers of a raw utterance and of its words, as an entry with       *)
(* start, end and words; defined for a raw utterance whose start and end   *)
(* and whose words' start and end are numbers.                             *)
RawNumeric(u) ==
    /\ u.t = "dict"
    /\ \A k \in {"start", "end", "words"} : k \in Keys(u)
    /\ u.d.start.t = "num" /\ u.d.end.t = "num"
    /\ u.d.words.t = "list"
    /\ \A i \in 1..Len(u.d.words.l) :
         /\ u.d.words.l[i].t = "dict"
         /\ \A k \in {"start", "end"} :
              k \in Keys(u.d.words.l[i]) /\ u.d.words.l[i].d[k].t = "num"

RawSpan(u) ==
    [start |-> u.d.start.n, end |-> u.d.end.n,
     words |-> [i \in 1..Len(u.d.words.l) |->
                  [start |-> u.d.words.l[i].d.start.n, end |-> u.d.words.l[i].d.end.n]]]

(* C13 as stated: every utterance the normalizer produces that has at      *)
(* least one word starts at the smallest start of its words and ends at    *)
(* the largest end of its words.                                           *)
C13_UtteranceSpansItsWords ==
    (FormatDone /\ IsOk(formatted)) =>
        \A j \in 1..Len(formatted.v.utterances) : SpansWords(formatted.v.utterances[j])

(* C13 amended: start and end of every utterance the normalizer produces   *)
(* are the backend utterance's own start and end rounded to 3 decimals,    *)
(* not computed from its words; an utterance with at least one word starts *)
(* at the smallest start and ends at the largest end of its words whenever *)
(* the backend's utterance does so with respect to its raw words.          *)
C13_UtteranceSpanCarriedOver ==
    (FormatDone /\ IsOk(formatted)) =>
        \A j \in 1..Len(formatted.v.utterances) :
            LET raw == RawUtterancesOf(deepgram_response)[j]
                out == formatted.v.utterances[j]
            IN  /\ IsRounded3(InputNumber(raw, "start"), out.start)
                /\ IsRounded3(InputNumber(raw, "end"), out.end)
                /\ (RawNumeric(raw) /\ SpansWords(RawSpan(raw))) => SpansWords(out)

(* C13 witness: an utterance of two words whose backend start and end are  *)
(* those of its first and last word, produced spanning its words.          *)
C13_Witness ==
    /\ FormatDone /\ IsOk(formatted)
    /\ Len(formatted.v.utterances) = 1
    /\ RawNumeric(RawUtterancesOf(deepgram_response)[1])
    /\ SpansWords(RawSpan(RawUtterancesOf(deepgram_response)[1]))
    /\ Len(formatted.v.utterances[1].words) = 2
    /\ formatted.v.utterances[1].start = 0
    /\ formatted.v.utterances[1].end = 30
    /\ formatted.v.utterances[1].words[2].end = 30

(* Consecutive entries do not overlap and are in order of time.            *)
Chronological(ws) ==
    \A i \in 1..(Len(ws) - 1) : ws[i].end <= ws[i + 1].start

(* The start and end of raw words, when all are numbers.                   *)
RawWordsNumeric(raws) ==
    \A i \in 1..Len(raws) :
        /\ raws[i].t = "dict"
        /\ \A k \in {"start", "end"} : k \in Keys(raws[i]) /\ raws[i].d[k].t = "num"

RawTimes(raws) ==
    [i \in 1..Len(raws) |-> [start |-> raws[i].d.start.n, end |-> raws[i].d.end.n]]

(* C14 as stated: the word sequence of every result is chronologically     *)
(* ordered and non-overlapping, w[i].end <= w[i+1].start for consecutive   *)
(* words, whatever order and timings the backend response lists them in.   *)
C14_WordsChronological ==
    (FormatDone /\ IsOk(formatted)) => Chronological(formatted.v.words)

(* C14 amended: the word sequence of a result keeps the order of the       *)
(* backend's word list, word i made from the i-th raw word with start and  *)
(* end rounded to 3 decimals; it is chronologically ordered and            *)
(* non-overlapping whenever the backend's list is, the normalizer neither  *)
(* sorting the words nor adjusting their times.                            *)
C14_WordsKeepBackendOrder ==
    (FormatDone /\ IsOk(formatted)) =>
        /\ \A i \in 1..Len(formatted.v.words) :
             WordCarried(RawWordsOf(deepgram_response)[i], formatted.v.words[i])
        /\ formatted.v.words # << >> =>
             /\ Len(formatted.v.words) = Len(RawWordsOf(deepgram_response))
             /\ ( /\ RawWordsNumeric(RawWordsOf(deepgram_response))
                  /\ Chronological(RawTimes(RawWordsOf(deepgram_response))) )
                => Chronological(formatted.v.words)

(* C14 witness: two different raw words listed in order of time, produced  *)
(* in that order.                                                          *)
C14_Witness ==
    /\ FormatDone /\ IsOk(formatted)
    /\ Len(formatted.v.words) = 2
    /\ RawWordsNumeric(RawWordsOf(deepgram_response))
    /\ Chronological(RawTimes(RawWordsOf(deepgram_response)))
    /\ formatted.v.words[1].text = Str("hi")
    /\ formatted.v.words[2].text = Str("yo")
    /\ formatted.v.words[1].end = formatted.v.words[2].start

-----------------------------------------------------------------------------
(* Properties of the keyword search (SpecSearch).                          *)

SearchDone == pc = "search_done"

(* A word of the result schema: a mapping whose text is a string and whose *)
(* start and end are numbers, each there or missing.                       *)
TypedWord(w) ==
    /\ w.t = "dict"
    /\ TypedOrAbsent(SourceOf(w, "text"), "text")
    /\ TypedOrAbsent(SourceOf(w, "start"), "num")
    /\ TypedOrAbsent(SourceOf(w, "end"), "num")

(* The search was asked on words of the schema with keywords that are      *)
(* strings.                                                                *)
TypedSearch ==
    /\ kw_given # NotRun
    /\ \A i \in 1..Len(kw_given.words) : TypedWord(kw_given.words[i])
    /\ \A k \in 1..Len(kw_given.keywords) : kw_given.keywords[k].t = "text"

(* The characters of a word's text, none when it has no text.              *)
WordText(w) == IF "text" \in Keys(w) THEN w.d.text.q ELSE << >>

(* Some stretch of the word's text equals the keyword, letter by letter,   *)
(* whatever the case of either.                                            *)
KeywordInWord(kw, w) ==
    \E off \in 0..(Len(WordText(w)) - Len(kw.q)) :
        \A j \in 1..Len(kw.q) : Lower(WordText(w)[off + j]) = Lower(kw.q[j])

Matches(w, keywords) == \E k \in 1..Len(keywords) : KeywordInWord(keywords[k], w)

(* The positions of the matching words, and the j-th of them.              *)
MatchingIndices == {i \in 1..Len(kw_given.words) : Matches(kw_given.words[i], kw_given.keywords)}

NthMatching(j) ==
    CHOOSE i \in MatchingIndices : Cardinality({x \in MatchingIndices : x < i}) = j - 1

(* The range has the start and end of the word, rounded to 3 decimals.     *)
RangeOfWord(r, w) ==
    /\ IsRounded3(InputNumber(w, "start"), r.start)
    /\ IsRounded3(InputNumber(w, "end"), r.end)

(* C15: find_time_ranges_by_keywords returns exactly one TimeRange per     *)
(* matching word, in the order of the words, each with the start and end   *)
(* of that matching word's own (rounded to 3 decimals); nothing is merged  *)
(* or deduplicated, so there are as many results as matching words.        *)
C15_OneRangePerMatchingWord ==
    (SearchDone /\ TypedSearch) =>
        /\ IsOk(time_ranges)
        /\ Len(time_ranges.v) = Cardinality(MatchingIndices)
        /\ \A j \in 1..Len(time_ranges.v) :
             RangeOfWord(time_ranges.v[j], kw_given.words[NthMatching(j)])

(* C15 witness: three matching words in a row, each the next one's         *)
(* neighbour in time, found as three ranges in order.                      *)
C15_Witness ==
    /\ SearchDone /\ TypedSearch /\ IsOk(time_ranges)
    /\ MatchingIndices = {2, 3, 4}
    /\ Len(kw_given.words) = 5
    /\ Len(time_ranges.v) = 3
    /\ time_ranges.v[1].start = 120
    /\ time_ranges.v[1].end = time_ranges.v[2].start
    /\ time_ranges.v[2].end = time_ranges.v[3].start

(* The starts of the words are at least 0.001 apart, so that a range tells *)
(* which word it was made from.                                            *)
DistinctStarts ==
    \A i, k \in 1..Len(kw_given.words) :
        i # k => \/ InputNumber(kw_given.words[i], "start")
                        - InputNumber(kw_given.words[k], "start") >= 10
                 \/ InputNumber(kw_given.words[k], "start")
                        - InputNumber(kw_given.words[i], "start") >= 10

(* C16: a word matches if and only if at least one keyword, lowercased, is *)
(* a substring of the word's lowercased text, whatever the case of the     *)
(* keyword and of the word: a matching word has a TimeRange, a word that   *)
(* contains no keyword has none.                                           *)
C16_MatchIsCaseInsensitiveContainment ==
    (SearchDone /\ TypedSearch) =>
        /\ IsOk(time_ranges)
        /\ MatchingIndices = {} => time_ranges.v = << >>
        /\ DistinctStarts =>
             \A i \in 1..Len(kw_given.words) :
                (i \in MatchingIndices)
                    <=> \E j \in 1..Len(time_ranges.v) :
                            RangeOfWord(time_ranges.v[j], kw_given.words[i])

(* C16 witness: the word "Ak" found by the keyword "aK" alone, next to     *)
(* words that contain no keyword and get no range.                         *)
C16_Witness ==
    /\ SearchDone /\ TypedSearch /\ IsOk(time_ranges)
    /\ DistinctStarts
    /\ kw_given.keywords = << Text(<< "K" >>), Text(<< "a", "K" >>) >>
    /\ Len(kw_given.words) = 3
    /\ WordText(kw_given.words[1]) = << "x" >>
    /\ WordText(kw_given.words[2]) = << "A", "k" >>
    /\ WordText(kw_given.words[3]) = << "x" >>
    /\ Len(time_ranges.v) = 1
    /\ time_ranges.v[1].start = 120

(* The texts of the words lo to hi joined by single spaces.                *)
RECURSIVE JoinedTexts(_, _, _)
JoinedTexts(ws, lo, hi) ==
    IF hi < lo THEN << >>
    ELSE IF lo = hi THEN WordText(ws[hi])
    ELSE JoinedTexts(ws, lo, hi - 1) \o << " " >> \o WordText(ws[hi])

Spaces(text) == Cardinality({p \in 1..Len(text) : text[p] = " "})

C18_KeywordsAreTheMatchingSet ==
    (SearchDone /\ TypedSearch /\ IsOk(time_ranges)) =>
        \A j \in 1..Len(time_ranges.v) :
            LET w == kw_given.words[NthMatching(j)]
                ks == time_ranges.v[j].keywords
            IN  /\ \A a \in 1..Len(ks) :
                     \E k \in 1..Len(kw_given.keywords) :
                        /\ LowerSeq(kw_given.keywords[k].q) = LowerSeq(ks[a])
                        /\ KeywordInWord(kw_given.keywords[k], w)
                /\ \A k \in 1..Len(kw_given.keywords) :
                     KeywordInWord(kw_given.keywords[k], w)
                        => \E a \in 1..Len(ks) :
                              LowerSeq(ks[a]) = LowerSeq(kw_given.keywords[k].q)
                /\ \A a, b \in 1..Len(ks) : a # b => ks[a] # ks[b]

(* C19: find_time_ranges_by_keywords returns an empty sequence whenever    *)
(* the word sequence or the keyword list is empty, and it leaves the word  *)
(* sequence and the keyword list it was given as they were.                *)
C19_EmptyInputEmptyResultNoMutation ==
    SearchDone =>
        /\ (kw_given.words = << >> \/ kw_given.keywords = << >>)
                => time_ranges = Ok(<< >>)
        /\ kw_words = kw_given.words
        /\ kw_keywords = kw_given.keywords

(* C19 witness: a search of words for no keyword, returning nothing, and   *)
(* the words still as given.                                               *)
C19_Witness ==
    /\ SearchDone
    /\ Len(kw_given.words) = 3
    /\ kw_given.keywords = << >>
    /\ time_ranges = Ok(<< >>)
    /\ kw_words = kw_given.words

-----------------------------------------------------------------------------
(* Properties of the audio extractor (SpecExtract).                        *)

ExtractDone == pc = "extract_done"

(* extract_audio got as far as starting the decoding process.              *)
ProcessAttempted == ffmpeg # NotRun

(* The process was started and exited with status 0, and the output file   *)
(* exists and is not empty.                                                *)
DecodingSucceeded ==
    /\ ffmpeg.raised # "OSError"
    /\ ffmpeg.returncode = 0
    /\ ffmpeg.exists /\ ffmpeg.size > 0

(* C20: extract_audio returns the temp path if and only if the decoding    *)
(* process exits with status 0 and the output file exists and is not       *)
(* empty; on either failure condition, and when the process cannot be      *)
(* started, it calls the deletion of the temp file and raises RuntimeError *)
(* (ExtractionFailed), which for a process that ran carries its exit code  *)
(* and diagnostic output.                                                  *)
C20_SuccessIffExitZeroAndOutput ==
    (ExtractDone /\ ProcessAttempted) =>
        /\ (extracted = Ok("tmp")) <=> DecodingSucceeded
        /\ ~DecodingSucceeded =>
             /\ cleanup_calls = 1
             /\ extracted.ex = "RuntimeError"
             /\ ffmpeg.raised # "OSError" =>
                  /\ DOMAIN extracted.message = {"returncode", "stderr"}
                  /\ extracted.message.returncode = ffmpeg.returncode
                  /\ extracted.message.stderr = ffmpeg.stderr


(* A precondition of extract_audio failed: the file is missing or its      *)
(* format is not supported.                                                *)
PreconditionFailed ==
    \/ ~video_exists
    \/ ~IsOk(validate_video_format(video_path))

(* C21: a call of extract_audio leaves exactly one new temporary file on   *)
(* disk when it succeeds and none when it fails; when a precondition fails *)
(* (file missing or format not supported) no temporary file is ever        *)
(* created and the decoding process is never started.                      *)
C21_OneTempFileOnSuccessNoneOnFailure ==
    ExtractDone =>
        /\ IsOk(extracted) => (tmp_created = 1 /\ tmp.exists)
        /\ ~IsOk(extracted) => ~tmp.exists
        /\ PreconditionFailed =>
             /\ ~IsOk(extracted)
             /\ tmp_created = 0
             /\ ffmpeg_runs = 0

-----------------------------------------------------------------------------
(* Properties of the transcription service inside the pipeline (Spec).     *)

(* transcribe_audio has been called and has ended.                         *)
TranscribeDone == transcribed # NotRun

(* C22: every failure of transcribe_audio is reported as one of exactly    *)
(* two kinds: an error the backend reported is raised again as ApiError    *)
(* with the backend's status code, and every other failure (audio file     *)
(* unreadable, network failure, unexpected exception) is raised as         *)
(* ConnectionError; neither kind is ever turned into the other.            *)
C22_ApiErrorOrConnectivityError ==
    TranscribeDone =>
        /\ IsOk(transcribed) <=> backend.k = "ok"
        /\ ~IsOk(transcribed) => transcribed.ex \in {"ApiError", "ConnectionError"}
        /\ backend.k = "api_error" =>
             transcribed = [ex |-> "ApiError", status_code |-> backend.status_code]
        /\ backend.k \in {"unreadable", "network", "unexpected"} =>
             transcribed = Raise("ConnectionError")

(* C22 witness: the backend answered 401, and transcribe_video has raised  *)
(* the ApiError with status code 401.                                      *)
C22_Witness ==
    /\ Done
    /\ backend = [k |-> "api_error", status_code |-> "401"]
    /\ transcribed = [ex |-> "ApiError", status_code |-> "401"]
    /\ outcome = [kind |-> "raised", error |-> transcribed]

(* The stages of transcribe_video in the order of the source, each with    *)
(* its recorded outcome (NotRun while it has not run).                     *)
StageOutcomes == << valid, extracted, transcribed, formatted >>

(* The first stage that failed, or 0.                                      *)
FirstFailed ==
    IF \E i \in 1..4 : StageOutcomes[i] # NotRun /\ ~IsOk(StageOutcomes[i])
    THEN CHOOSE i \in 1..4 :
            /\ StageOutcomes[i] # NotRun /\ ~IsOk(StageOutcomes[i])
            /\ \A k \in 1..(i - 1) : ~(StageOutcomes[k] # NotRun /\ ~IsOk(StageOutcomes[k]))
    ELSE 0

(* C23: transcribe_video runs its stages in the order validate, extract,   *)
(* transcribe, normalize; a stage has run only if every earlier stage      *)
(* succeeded, so the error raised to the caller is the first one met and   *)
(* no stage runs after a failure: no transcription request is sent unless  *)
(* extraction succeeded and no decoding process is started for a format    *)
(* that is not supported.                                                  *)
C23_StagesInOrderFirstErrorRaised ==
    /\ \A i \in 2..4 :
         StageOutcomes[i] # NotRun => \A k \in 1..(i - 1) : IsOk(StageOutcomes[k])
    /\ requests > 0 => IsOk(extracted)
    /\ ffmpeg_runs > 0 => IsOk(validate_video_format(video_path))
    /\ Done =>
         IF FirstFailed = 0
         THEN /\ \A i \in 1..4 : IsOk(StageOutcomes[i])
              /\ outcome = [kind |-> "returned", value |-> formatted.v]
         ELSE /\ outcome = [kind |-> "raised", error |-> StageOutcomes[FirstFailed]]
              /\ \A i \in (FirstFailed + 1)..4 : StageOutcomes[i] = NotRun

(* C23 witness: the decoding process ran and failed; no request was sent,  *)
(* nothing was normalized, and the extraction's error was raised.          *)
C23_Witness ==
    /\ Done
    /\ IsOk(valid)
    /\ ffmpeg_runs = 1
    /\ extracted.ex = "RuntimeError"
    /\ transcribed = NotRun /\ formatted = NotRun
    /\ requests = 0
    /\ outcome = [kind |-> "raised", error |-> extracted]

(* C24: within one invocation of transcribe_video the decoding process is  *)
(* started at most once and at most one transcription request is sent; a   *)
(* failed extraction or transcription is not tried again and makes the     *)
(* whole invocation fail with its error.                                   *)
C24_AtMostOneProcessAndOneRequest ==
    /\ ffmpeg_runs <= 1
    /\ requests <= 1
    /\ (extracted # NotRun /\ ~IsOk(extracted)) =>
         /\ requests = 0
         /\ outcome.kind \in {"raising", "raised"}
         /\ outcome.error = extracted
    /\ (transcribed # NotRun /\ ~IsOk(transcribed)) =>
         /\ outcome.kind \in {"raising", "raised"}
         /\ outcome.error = transcribed
    /\ Done => (outcome.kind = "returned" => (IsOk(extracted) /\ IsOk(transcribed)))

(* C24 witness: the one request failed on the network after the one        *)
(* decoding run succeeded, and the invocation has raised ConnectionError.  *)
C24_Witness ==
    /\ Done
    /\ ffmpeg_runs = 1 /\ IsOk(extracted)
    /\ requests = 1
    /\ backend = [k |-> "network"]
    /\ outcome = [kind |-> "raised", error |-> Raise("ConnectionError")]

(* cleanup_temp_files was called on the temporary file and the file is     *)
(* still there: its deletion failed.                                       *)
DeletionFailed == cleanup_calls >= 1 /\ tmp.exists

(* C25: cleanup_temp_files never raises; a failed deletion of the          *)
(* temporary file is only reported, so when a stage failed the error       *)
(* transcribe_video raises is that stage's error, and when all stages      *)
(* succeeded the result is returned all the same.                          *)
C25_CleanupFailureNeverReplacesOutcome ==
    (Done /\ DeletionFailed) =>
        /\ FirstFailed # 0 =>
             outcome = [kind |-> "raised", error |-> StageOutcomes[FirstFailed]]
        /\ FirstFailed = 0 =>
             outcome = [kind |-> "returned", value |-> formatted.v]

(* C25 witness: every stage succeeded, the deletion in the finally block   *)
(* failed, and the result was returned.                                    *)
C25_Witness ==
    /\ Done /\ DeletionFailed
    /\ FirstFailed = 0
    /\ IsOk(formatted)
    /\ removes = 0
    /\ outcome = [kind |-> "returned", value |-> formatted.v]

-----------------------------------------------------------------------------
(* Independence of the guards of the normalizer (SpecFormat).              *)

(* The response has a primary alternative that is a mapping, so that the   *)
(* raw words, the raw utterances and the metadata are separate parts of it.*)
HasPieces(response) ==
    /\ AltOf(response) # Absent
    /\ AltOf(response).t = "dict"

(* The same response with one part left out: the raw words, the raw        *)
(* utterances, or the metadata and the confidence of the alternative.      *)
WithoutWords(response) ==
    [response EXCEPT !.d.results.d.channels.l[1].d.alternatives.l[1].d.words = Absent]

WithoutUtterances(response) ==
    [response EXCEPT !.d.results.d.utterances = Absent]

WithoutMetadata(response) ==
    [response EXCEPT !.d.metadata = Absent,
                     !.d.results.d.channels.l[1].d.alternatives.l[1].d.confidence = Absent]

(* The extraction of a piece meets an exception.                           *)
WordsFailure(response) ==
    ~IsOk(Bind(Get(AltOf(response), "words", EmptyList), LAMBDA raw_words :
          Bind(Iter(raw_words), LAMBDA items : FormatWords(items))))

UtterancesFailure(response) ==
    ~IsOk(Bind(Get(response.d.results, "utterances", EmptyList), LAMBDA raw_utterances :
          Bind(Iter(raw_utterances), LAMBDA items : FormatUtterances(items))))

MetadataFailure(response) == ~IsOk(MetadataBlock(response))

Pieces == {"transcript", "words", "utterances", "metadata"}

(* The piece is at its default and the other three are what the response   *)
(* without the failing part gives.                                         *)
OnlyPieceReset(piece, default, without) ==
    /\ IsOk(formatted)
    /\ formatted.v[piece] = default
    /\ IsOk(format_response(without))
    /\ \A q \in Pieces \ {piece} : formatted.v[q] = format_response(without).v[q]

(* C26: the guards of format_response are independent: a failure while     *)
(* extracting one piece (words, utterances or metadata) resets only that   *)
(* piece to its default and leaves the other three pieces as they are      *)
(* extracted from the same response without that failure.                  *)
C26_GuardsIndependent ==
    (FormatDone /\ HasPieces(deepgram_response)) =>
        /\ WordsFailure(deepgram_response) =>
             OnlyPieceReset("words", << >>, WithoutWords(deepgram_response))
        /\ UtterancesFailure(deepgram_response) =>
             OnlyPieceReset("utterances", << >>, WithoutUtterances(deepgram_response))
        /\ MetadataFailure(deepgram_response) =>
             OnlyPieceReset("metadata", DefaultMetadata,
                            WithoutMetadata(deepgram_response))

-----------------------------------------------------------------------------
(* Order of the precondition checks at the two entry points                *)
(* (SpecEntryPoints).                                                      *)

(* The name of the path ends with a supported extension.                   *)
SupportedExtension ==
    \E e \in SUPPORTED_FORMATS : EndsWithIgnoringCase(PathName(video_path), e)

(* C27: the precondition checks are ordered differently at the two levels: *)
(* extract_audio called directly on a path that does not exist raises      *)
(* FileNotFoundError whatever the extension, whereas transcribe_video on a *)
(* path that does not exist raises ValueError (UnsupportedFormat) when the *)
(* extension is not supported and FileNotFoundError only when it is.       *)
C27_PreconditionOrderDiffers ==
    /\ (ExtractDone /\ ~video_exists) => extracted = Raise("FileNotFoundError")
    /\ (Done /\ ~video_exists) =>
         /\ outcome.kind = "raised"
         /\ outcome.error.ex =
              (IF SupportedExtension THEN "FileNotFoundError" ELSE "ValueError")

(* C27 witness, direct call: a missing a.txt raises FileNotFoundError.     *)
C27_Witness ==
    /\ ExtractDone
    /\ ~video_exists
    /\ video_path = << "a", ".", "t", "x", "t" >>
    /\ extracted = Raise("FileNotFoundError")

-----------------------------------------------------------------------------
(* All-or-nothing extraction (SpecFormat).                                 *)

(* A raw entry that is a mapping with a start, end or confidence float()   *)
(* rejects: the malformation the guards catch.                             *)
BadNumber(entry) ==
    /\ entry.t = "dict"
    /\ \E k \in {"start", "end", "confidence"} :
          k \in Keys(entry) /\ ~IsOk(Float(entry.d[k]))

HasBadWord(l) ==
    l.t = "list" /\ \E i \in 1..Len(l.l) : BadNumber(l.l[i])

(* A raw utterance with a bad number of its own or a bad nested word.      *)
BadUtterance(u) ==
    \/ BadNumber(u)
    \/ u.t = "dict" /\ "words" \in Keys(u) /\ HasBadWord(u.d.words)

(* A duration or a confidence of the alternative that float() rejects.     *)
BadMetadataField(response) ==
    \/ /\ "metadata" \in Keys(response)
       /\ response.d.metadata.t = "dict"
       /\ "duration" \in Keys(response.d.metadata)
       /\ ~IsOk(Float(response.d.metadata.d.duration))
    \/ /\ "confidence" \in Keys(AltOf(response))
       /\ ~IsOk(Float(AltOf(response).d.confidence))

(* C28: word and utterance extraction are all-or-nothing: when a word      *)
(* entry is malformed in a way the guard catches (a start, end or          *)
(* confidence that is no number), the word list is empty and holds none of *)
(* the well-formed words before or after it; likewise one such utterance   *)
(* or nested word empties the whole utterance list, and one such metadata  *)
(* field resets all four metadata fields to their defaults.                *)
C28_ExtractionAllOrNothing ==
    (FormatDone /\ IsOk(formatted) /\ HasPieces(deepgram_response)) =>
        LET alt == AltOf(deepgram_response)
            results == deepgram_response.d.results
        IN  /\ ("words" \in Keys(alt) /\ HasBadWord(alt.d.words))
                  => formatted.v.words = << >>
            /\ ( /\ "utterances" \in Keys(results)
                 /\ results.d.utterances.t = "list"
                 /\ \E i \in 1..Len(results.d.utterances.l) :
                       BadUtterance(results.d.utterances.l[i]) )
                  => formatted.v.utterances = << >>
            /\ BadMetadataField(deepgram_response)
                  => formatted.v.metadata = DefaultMetadata

(* C28 witness: a well-formed word followed by one whose start is "abc":   *)
(* no word is returned, while the utterance list is delivered.             *)
C28_Witness ==
    /\ FormatDone /\ IsOk(formatted) /\ HasPieces(deepgram_response)
    /\ "words" \in Keys(AltOf(deepgram_response))
    /\ AltOf(deepgram_response).d.words.t = "list"
    /\ Len(RawWordsOf(deepgram_response)) = 2
    /\ WellFormedWord(RawWordsOf(deepgram_response)[1])
    /\ BadNumber(RawWordsOf(deepgram_response)[2])
    /\ formatted.v.words = << >>
    /\ formatted.v.utterances # << >>

-----------------------------------------------------------------------------
(* Properties of the action-group lambda (SpecLambda, SpecLambdaFair).     *)

(* The polling loop of transcribe_video_action was entered and the action  *)
(* has returned.                                                           *)
PollingEnded == job_started = 1 /\ action_result # NotRun

(* The last poll reported this job status.                                 *)
LastStatus(s) == job_status = [k |-> "status", status |-> s]

(* C29, as stated: the loop polls at most 30 times, returns success as     *)
(* soon as the job is COMPLETED, TranscriptionFailed as soon as it is      *)
(* FAILED, and TranscriptionTimeout if neither status is seen within the   *)
(* budget; the job is deleted only on the COMPLETED path.                  *)
C29_PollingLoopOutcomes ==
    /\ polls <= 30
    /\ job_deleted > 0 => LastStatus("COMPLETED")
    /\ PollingEnded =>
         /\ LastStatus("COMPLETED") => action_result.success
         /\ LastStatus("FAILED") => action_result = ActionError("TranscriptionFailed")
         /\ (~LastStatus("COMPLETED") /\ ~LastStatus("FAILED")) =>
               action_result = ActionError("TranscriptionTimeout")

(* What holds of the loop in every state.                                  *)
PollingLoopSafe ==
    /\ polls <= 30
    /\ pc = "action_poll" => (wait_time = PollInterval * polls /\ wait_time < max_wait)
    /\ job_deleted > 0 => (LastStatus("COMPLETED") /\ download.k = "ok")
    /\ PollingEnded =>
         /\ polls >= 1
         /\ (LastStatus("COMPLETED") /\ download.k = "ok") =>
               /\ action_result.success
               /\ action_result.transcript = download.transcript
               /\ job_deleted = 1
         /\ (LastStatus("COMPLETED") /\ download.k = "failed") =>
               /\ action_result = ActionError("TranscriptionError")
               /\ job_deleted = 0
         /\ LastStatus("FAILED") => action_result = ActionError("TranscriptionFailed")
         /\ job_status.k = "client_error" => action_result = ActionError(job_status.code)
         /\ job_status.k = "other" => action_result = ActionError("TranscriptionError")
         /\ (LastStatus("QUEUED") \/ LastStatus("IN_PROGRESS")) =>
               /\ polls = 30
               /\ action_result = ActionError("TranscriptionTimeout")

(* C29, amended: the loop always ends, after at most 30 polls 10 s apart;  *)
(* it returns success as soon as a poll reports COMPLETED and the          *)
(* transcript was fetched, TranscriptionError when fetching it fails,      *)
(* TranscriptionFailed as soon as a poll reports FAILED, the error of a    *)
(* poll that raises, and TranscriptionTimeout after 30 polls that reported *)
(* neither status; the job is deleted only after its transcript was        *)
(* fetched.                                                                *)
C29_PollingLoopTerminates ==
    /\ []PollingLoopSafe
    /\ (pc = "action_poll") ~> (pc = "handler_done")

(* C29 witness: the 30th poll reports COMPLETED, fetching the transcript   *)
(* fails, and the action has returned TranscriptionError with the job not  *)
(* deleted.                                                                *)
C29_Witness ==
    /\ PollingEnded
    /\ polls = 30
    /\ LastStatus("COMPLETED")
    /\ download.k = "failed"
    /\ action_result = ActionError("TranscriptionError")
    /\ job_deleted = 0

HandlerDone == pc = "handler_done"

(* The action handler the apiPath of the event names, or "none".           *)
HandlerOf(api_path) ==
    CASE api_path = Str("/retrieve_video_from_s3") -> "retrieve_video_from_s3_action"
      [] api_path = Str("/transcribe_video") -> "transcribe_video_action"
      [] api_path = Str("/invoke_role_agent") -> "invoke_role_agent_action"
      [] OTHER -> "none"

(* C30: lambda_handler never raises and always returns a response with     *)
(* messageVersion "1.0": it calls exactly the one action handler the       *)
(* apiPath names, reports httpStatusCode 200 if and only if the handler's  *)
(* result has success true and 400 otherwise, answers an unknown apiPath   *)
(* with error UnknownAction (400) without calling any handler, and answers *)
(* an exception during dispatch with 500 InternalError.                    *)
C30_HandlerAlwaysResponds ==
    HandlerDone =>
        /\ IsOk(lambda_response)
        /\ lambda_response.v.messageVersion = "1.0"
        /\ IF ~IsOk(ParseEvent(lambda_event))
           THEN /\ lambda_response.v.httpStatusCode = 500
                /\ lambda_response.v.body = JsonDumps(ActionError("InternalError"))
                /\ handler_calls = << >>
           ELSE LET handler == HandlerOf(ParseEvent(lambda_event).v.api_path)
                IN  /\ lambda_response.v.body = JsonDumps(action_result)
                    /\ lambda_response.v.httpStatusCode =
                          (IF action_result.success THEN 200 ELSE 400)
                    /\ handler # "none" => handler_calls = << handler >>
                    /\ handler = "none" =>
                          /\ handler_calls = << >>
                          /\ action_result = ActionError("UnknownAction")
                          /\ lambda_response.v.httpStatusCode = 400

=============================================================================
